---- MODULE Spec2Model ----
(***************************************************************************)
(* Model of the resource-tree scaffolding engine of ansible-creator:      *)
(* utils.py (DestinationFile, FileList, Walker, Copier) and the overwrite *)
(* policy of subcommands/init.py and subcommands/add.py.                  *)
(*                                                                         *)
(* Text (paths, names, file content) is a sequence of tokens.  "/" and    *)
(* "." are tokens of their own, so "a.j2" is <<"a", ".", "j2">> and the   *)
(* string functions of the code (replace, split, removesuffix, endswith)  *)
(* are computed on token sequences.  A filesystem path is a sequence of   *)
(* segments, each segment a token sequence.                               *)
(***************************************************************************)
EXTENDS Integers, Sequences, FiniteSets, TLC

VARIABLES
    resources,      \* Walker.resources: the ordered bundles of this run
    template_data,  \* Walker.template_data
    templar,        \* Walker.templar is set (TRUE) or None (FALSE)
    fs,             \* the filesystem: path -> [kind, content]
    fs0,            \* the filesystem when the run started
    paths,          \* the FileList returned by the last collect_paths
    paths1,         \* the FileList the Copier applied
    warnings,       \* messages given to output.warning by the last walk
    phase,          \* position of the run
    failed,         \* "" or where an exception other than CreatorError escaped
    op,             \* the scaffold operation of a policy run
    flags,          \* [force, overwrite, no_overwrite] of a policy run
    plugin,         \* [type, name] of Add (plugin scaffold)
    copyCalls,      \* number of Copier.copy_containers invocations
    askCalls,       \* number of ask_yes_no invocations
    answer,         \* the answer ask_yes_no accepted ("" when none)
    prompts,        \* number of input() calls made by ask_yes_no
    notes,          \* messages given to output.note
    raised,         \* message of the CreatorError raised (<<>> when none)
    stdin,          \* the lines input() has still to read
    call,           \* the arguments of the call a run makes ("" when it has none)
    ret             \* the value the call returned ("" before it returns)

vars == <<resources, template_data, templar, fs, fs0, paths, paths1, warnings,
          phase, failed, op, flags, plugin, copyCalls, askCalls, answer, prompts,
          notes, raised, stdin, call, ret>>

----------------------------------------------------------------------------
(* Text as token sequences *)

\* s[i..] starts with pat
StartsAt(s, pat, i) ==
    /\ i + Len(pat) - 1 <= Len(s)
    /\ \A k \in 1..Len(pat) : s[i + k - 1] = pat[k]

\* pat in s
Contains(s, pat) == \E i \in 1..(Len(s) + 1) : StartsAt(s, pat, i)

\* a replace that stops after the first occurrence
StrReplaceFirst(s, key, val) ==
    IF key # <<>> /\ Contains(s, key)
    THEN LET i == CHOOSE j \in 1..Len(s) :
                    /\ StartsAt(s, key, j)
                    /\ \A k \in 1..(j - 1) : ~StartsAt(s, key, k)
         IN  SubSeq(s, 1, i - 1) \o val \o SubSeq(s, i + Len(key), Len(s))
    ELSE s

RECURSIVE StrReplace(_, _, _)
\* str.replace(key, val): every non-overlapping occurrence, left to right
StrReplace(s, key, val) ==
    IF s = <<>> \/ key = <<>> THEN s
    ELSE IF StartsAt(s, key, 1)
         THEN val \o StrReplace(SubSeq(s, Len(key) + 1, Len(s)), key, val)
         ELSE <<Head(s)>> \o StrReplace(Tail(s), key, val)

\* str.split(sep, maxsplit=1)[-1]
SplitLast(s, sep) ==
    IF Contains(s, sep)
    THEN LET i == CHOOSE j \in 1..Len(s) :
                    /\ StartsAt(s, sep, j)
                    /\ \A k \in 1..(j - 1) : ~StartsAt(s, sep, k)
         IN  SubSeq(s, i + Len(sep), Len(s))
    ELSE s

\* str.endswith(suf)
EndsWith(s, suf) ==
    /\ Len(suf) <= Len(s)
    /\ SubSeq(s, Len(s) - Len(suf) + 1, Len(s)) = suf

\* str.removesuffix(suf)
RemoveSuffix(s, suf) ==
    IF suf # <<>> /\ EndsWith(s, suf) THEN SubSeq(s, 1, Len(s) - Len(suf)) ELSE s

RECURSIVE SplitOn(_, _)
\* str.split(tok) for a one-token separator: the list of pieces
SplitOn(s, tok) ==
    IF \A i \in 1..Len(s) : s[i] # tok THEN <<s>>
    ELSE LET i == CHOOSE j \in 1..Len(s) :
                    s[j] = tok /\ \A k \in 1..(j - 1) : s[k] # tok
         IN  <<SubSeq(s, 1, i - 1)>> \o SplitOn(SubSeq(s, i + 1, Len(s)), tok)

RECURSIVE SelectSegs(_)
\* pathlib drops empty and "." segments when it parses a path
SelectSegs(segs) ==
    IF segs = <<>> THEN <<>>
    ELSE IF Head(segs) = <<>> \/ Head(segs) = <<".">>
         THEN SelectSegs(Tail(segs))
         ELSE <<Head(segs)>> \o SelectSegs(Tail(segs))

\* pathlib: dest / name (an absolute name replaces dest)
PathJoin(dest, name) ==
    IF name # <<>> /\ name[1] = "/"
    THEN SelectSegs(SplitOn(name, "/"))
    ELSE dest \o SelectSegs(SplitOn(name, "/"))

----------------------------------------------------------------------------
(* Program constants *)

PATH_REPLACERS ==
    << [key |-> <<"project_org">>,  val |-> "namespace"],
       [key |-> <<"project_repo">>, val |-> "collection_name"] >>

SKIP_DIRS == { <<"__pycache__">> }

SKIP_FILES_TYPES == { <<".", "pyc">> }

META_NAME == <<"__meta__", ".", "yml">>

\* where importlib finds the bundles: Walker.resource_root as a directory
ResourceRoot == <<"/", "pkg", "/", "ansible_creator", "/", "resources">>

\* impl_resources.files(f"{resource_root}.{resource}") as a path string
ResourceDir(resource) == ResourceRoot \o <<"/">> \o StrReplace(resource, <<".">>, <<"/">>)

----------------------------------------------------------------------------
(* The filesystem *)

IsPrefix(p, q) == Len(p) <= Len(q) /\ SubSeq(q, 1, Len(p)) = p

Parent(p) == SubSeq(p, 1, Len(p) - 1)

Exists(f, p) == p \in DOMAIN f

IsFile(f, p) == p \in DOMAIN f /\ f[p].kind = "file"

IsDir(f, p) == p \in DOMAIN f /\ f[p].kind = "dir"

DirEntry == [kind |-> "dir", content |-> <<>>]

FileEntry(c) == [kind |-> "file", content |-> c]

\* Path.unlink
Unlink(f, p) == [q \in DOMAIN f \ {p} |-> f[q]]

\* shutil.rmtree
Rmtree(f, p) == [q \in {r \in DOMAIN f : ~IsPrefix(p, r)} |-> f[q]]

\* Path.mkdir(parents=True, exist_ok=True)
Mkdir(f, p) ==
    IF IsDir(f, p) THEN [fs |-> f, err |-> FALSE]
    ELSE IF \E i \in 0..Len(p) : IsFile(f, SubSeq(p, 1, i))
         THEN [fs |-> f, err |-> TRUE]
         ELSE LET new == {SubSeq(p, 1, i) : i \in 0..Len(p)} \ DOMAIN f
              IN  [fs  |-> [q \in DOMAIN f \cup new |->
                                IF q \in DOMAIN f THEN f[q] ELSE DirEntry],
                   err |-> FALSE]

\* Path.open("w") and write
WriteText(f, p, c) ==
    IF p = <<>> \/ ~IsDir(f, Parent(p)) \/ IsDir(f, p)
    THEN [fs |-> f, err |-> TRUE]
    ELSE [fs  |-> [q \in DOMAIN f \cup {p} |-> IF q = p THEN FileEntry(c) ELSE f[q]],
          err |-> FALSE]

----------------------------------------------------------------------------
(* Templar and TemplateData *)

\* the template expressions that occur in file content, and the field each reads
JinjaVar ==
    ("{{namespace}}" :> "namespace") @@ ("{{collection_name}}" :> "collection_name")
    @@ ("{{extra}}" :> "extra")

RECURSIVE RenderText(_, _)
RenderText(template, data) ==
    IF template = <<>> THEN <<>>
    ELSE (IF Head(template) \in DOMAIN JinjaVar
          THEN data[JinjaVar[Head(template)]]
          ELSE <<Head(template)>>) \o RenderText(Tail(template), data)

\* Templar.render_from_content with StrictUndefined: an undefined field raises
render_from_content(template, data) ==
    IF \E i \in 1..Len(template) :
           template[i] \in DOMAIN JinjaVar /\ JinjaVar[template[i]] \notin DOMAIN data
    THEN [ok |-> FALSE, text |-> <<>>]
    ELSE [ok |-> TRUE, text |-> RenderText(template, data)]

\* setattr(template_data, key, value)
SetAttr(data, key, value) ==
    [k \in DOMAIN data \cup {key} |-> IF k = key THEN value ELSE data[k]]

----------------------------------------------------------------------------
(* DestinationFile and FileList *)

\* a conflict check that does not compare the content of an existing file
ConflictAnyExisting(f, kind, dest, content) ==
    IF ~Exists(f, dest) THEN ""
    ELSE IF kind = "file" /\ IsFile(f, dest) THEN "already exists"
    ELSE IF kind = "file" /\ ~IsFile(f, dest)
         THEN "already exists and is a directory!"
    ELSE IF kind = "dir" /\ ~IsDir(f, dest)
         THEN "already exists and is a file!"
    ELSE ""

\* DestinationFile.conflict, evaluated against filesystem f
Conflict(f, kind, dest, content) ==
    IF ~Exists(f, dest) THEN ""
    ELSE IF kind = "file" /\ IsFile(f, dest) /\ content # f[dest].content
         THEN "already exists"
    ELSE IF kind = "file" /\ ~IsFile(f, dest)
         THEN "already exists and is a directory!"
    ELSE IF kind = "dir" /\ ~IsDir(f, dest)
         THEN "already exists and is a file!"
    ELSE ""

\* source.name.split(".")[-1]
LastPiece(name) == LET pieces == SplitOn(name, ".") IN pieces[Len(pieces)]

\* a needs_write that does not look at the destination
NeedsWriteAlways(f, name, kind, dest, content) ==
    ~(kind = "file" /\ (LastPiece(name) \in SKIP_FILES_TYPES \/ name = META_NAME))

\* a needs_write that takes an existing destination of the other type as done
NeedsWriteSameTypeOnly(f, name, kind, dest, content) ==
    IF kind = "file" /\ (LastPiece(name) \in SKIP_FILES_TYPES \/ name = META_NAME)
    THEN FALSE
    ELSE IF ~Exists(f, dest) THEN TRUE
    ELSE kind = "file" /\ IsFile(f, dest) /\ content # f[dest].content

\* DestinationFile.needs_write, evaluated against filesystem f
NeedsWrite(f, name, kind, dest, content) ==
    IF kind = "file" /\ (LastPiece(name) \in SKIP_FILES_TYPES \/ name = META_NAME)
    THEN FALSE
    ELSE IF ~Exists(f, dest) THEN TRUE
    ELSE Conflict(f, kind, dest, content) # ""

\* DestinationFile.set_content: [ok, text]
SetContent(obj, data, tp) ==
    IF tp /\ EndsWith(obj.name, <<"j2">>)
    THEN render_from_content(obj.content, data)
    ELSE [ok |-> TRUE, text |-> obj.content]

\* a remove_existing that unlinks files but leaves directories
RemoveExistingFilesOnly(f, dest) ==
    IF IsFile(f, dest) THEN Unlink(f, dest) ELSE f

\* a remove_existing that clears the directory the destination is in
RemoveExistingParent(f, dest) ==
    IF Exists(f, dest) /\ dest # <<>> THEN Rmtree(f, Parent(dest)) ELSE f

\* DestinationFile.remove_existing
RemoveExisting(f, dest) ==
    IF IsFile(f, dest) THEN Unlink(f, dest)
    ELSE IF IsDir(f, dest) THEN Rmtree(f, dest)
    ELSE f

\* FileList.has_conflicts
HasConflicts(list) == \E i \in 1..Len(list) : list[i].conflict # ""

----------------------------------------------------------------------------
(* Walker *)

RECURSIVE ApplyReplacers(_, _, _)
\* the loop over PATH_REPLACERS.items(), from entry i on
ApplyReplacers(dest_name, i, data) ==
    IF i > Len(PATH_REPLACERS) THEN dest_name
    ELSE LET r == PATH_REPLACERS[i] IN
         IF Contains(dest_name, r.key)
         THEN ApplyReplacers(StrReplace(dest_name, r.key, data[r.val]), i + 1, data)
         ELSE ApplyReplacers(dest_name, i + 1, data)

\* the destination each_obj plans for the node whose str() is objStr
DestOf(dest, objStr, resource, data) ==
    LET rel == SplitLast(objStr, StrReplace(resource, <<".">>, <<"/">>) \o <<"/">>)
    IN  PathJoin(dest, RemoveSuffix(ApplyReplacers(rel, 1, data), <<".", "j2">>))

NoPaths == [list |-> <<>>, warn |-> <<>>, err |-> FALSE]

RECURSIVE EachObj(_, _, _, _, _, _, _)
RECURSIVE RecursiveWalk(_, _, _, _, _, _, _)

\* an each_obj that lists a directory after its children
EachObjPostOrder(f, dest, obj, objStr, resource, data, tp) ==
    LET dpath == DestOf(dest, objStr, resource, data)
        sc    == IF obj.kind = "file" THEN SetContent(obj, data, tp)
                 ELSE [ok |-> TRUE, text |-> <<>>]
        nw    == NeedsWrite(f, obj.name, obj.kind, dpath, sc.text)
        cf    == Conflict(f, obj.kind, dpath, sc.text)
        entry == [source |-> objStr, name |-> obj.name, kind |-> obj.kind,
                  dest |-> dpath, content |-> sc.text, conflict |-> cf]
        warn  == IF nw /\ cf # "" THEN <<[dest |-> dpath, msg |-> cf]>> ELSE <<>>
        sub   == RecursiveWalk(f, dest, obj.children, objStr, resource, data, tp)
    IN  IF ~sc.ok THEN [list |-> <<>>, warn |-> <<>>, err |-> TRUE]
        ELSE IF nw /\ obj.kind = "dir" /\ obj.name \notin SKIP_DIRS
             THEN [list |-> sub.list \o <<entry>>, warn |-> warn \o sub.warn,
                   err |-> sub.err]
        ELSE IF nw /\ obj.kind = "file"
             THEN [list |-> <<entry>>, warn |-> warn, err |-> FALSE]
        ELSE IF obj.kind = "dir" /\ obj.name \notin SKIP_DIRS
             THEN [list |-> sub.list, warn |-> warn \o sub.warn, err |-> sub.err]
        ELSE [list |-> <<>>, warn |-> warn, err |-> FALSE]

\* an each_obj that walks the directories of SKIP_DIRS like any other
EachObjNoSkip(f, dest, obj, objStr, resource, data, tp) ==
    LET dpath == DestOf(dest, objStr, resource, data)
        sc    == IF obj.kind = "file" THEN SetContent(obj, data, tp)
                 ELSE [ok |-> TRUE, text |-> <<>>]
        nw    == NeedsWrite(f, obj.name, obj.kind, dpath, sc.text)
        cf    == Conflict(f, obj.kind, dpath, sc.text)
        entry == [source |-> objStr, name |-> obj.name, kind |-> obj.kind,
                  dest |-> dpath, content |-> sc.text, conflict |-> cf]
        warn  == IF nw /\ cf # "" THEN <<[dest |-> dpath, msg |-> cf]>> ELSE <<>>
        sub   == RecursiveWalk(f, dest, obj.children, objStr, resource, data, tp)
    IN  IF ~sc.ok THEN [list |-> <<>>, warn |-> <<>>, err |-> TRUE]
        ELSE IF nw /\ obj.kind = "dir"
             THEN [list |-> <<entry>> \o sub.list, warn |-> warn \o sub.warn,
                   err |-> sub.err]
        ELSE IF nw /\ obj.kind = "file"
             THEN [list |-> <<entry>>, warn |-> warn, err |-> FALSE]
        ELSE IF obj.kind = "dir"
             THEN [list |-> sub.list, warn |-> warn \o sub.warn, err |-> sub.err]
        ELSE [list |-> <<>>, warn |-> warn, err |-> FALSE]

\* an each_obj that walks into a directory only when the directory itself
\* needs writing
EachObjShallow(f, dest, obj, objStr, resource, data, tp) ==
    LET dpath == DestOf(dest, objStr, resource, data)
        sc    == IF obj.kind = "file" THEN SetContent(obj, data, tp)
                 ELSE [ok |-> TRUE, text |-> <<>>]
        nw    == NeedsWrite(f, obj.name, obj.kind, dpath, sc.text)
        cf    == Conflict(f, obj.kind, dpath, sc.text)
        entry == [source |-> objStr, name |-> obj.name, kind |-> obj.kind,
                  dest |-> dpath, content |-> sc.text, conflict |-> cf]
        warn  == IF nw /\ cf # "" THEN <<[dest |-> dpath, msg |-> cf]>> ELSE <<>>
        sub   == RecursiveWalk(f, dest, obj.children, objStr, resource, data, tp)
    IN  IF ~sc.ok THEN [list |-> <<>>, warn |-> <<>>, err |-> TRUE]
        ELSE IF nw /\ obj.kind = "dir" /\ obj.name \notin SKIP_DIRS
             THEN [list |-> <<entry>> \o sub.list, warn |-> warn \o sub.warn,
                   err |-> sub.err]
        ELSE IF nw /\ obj.kind = "file"
             THEN [list |-> <<entry>>, warn |-> warn, err |-> FALSE]
        ELSE [list |-> <<>>, warn |-> warn, err |-> FALSE]

\* Walker.each_obj: [list, warn, err]
EachObj(f, dest, obj, objStr, resource, data, tp) ==
    LET dpath == DestOf(dest, objStr, resource, data)
        sc    == IF obj.kind = "file" THEN SetContent(obj, data, tp)
                 ELSE [ok |-> TRUE, text |-> <<>>]
        nw    == NeedsWrite(f, obj.name, obj.kind, dpath, sc.text)
        cf    == Conflict(f, obj.kind, dpath, sc.text)
        entry == [source |-> objStr, name |-> obj.name, kind |-> obj.kind,
                  dest |-> dpath, content |-> sc.text, conflict |-> cf]
        warn  == IF nw /\ cf # "" THEN <<[dest |-> dpath, msg |-> cf]>> ELSE <<>>
        sub   == RecursiveWalk(f, dest, obj.children, objStr, resource, data, tp)
    IN  IF ~sc.ok THEN [list |-> <<>>, warn |-> <<>>, err |-> TRUE]
        ELSE IF nw /\ obj.kind = "dir" /\ obj.name \notin SKIP_DIRS
             THEN [list |-> <<entry>> \o sub.list, warn |-> warn \o sub.warn,
                   err |-> sub.err]
        ELSE IF nw /\ obj.kind = "file"
             THEN [list |-> <<entry>>, warn |-> warn, err |-> FALSE]
        ELSE IF obj.kind = "dir" /\ obj.name \notin SKIP_DIRS
             THEN [list |-> sub.list, warn |-> warn \o sub.warn, err |-> sub.err]
        ELSE [list |-> <<>>, warn |-> warn, err |-> FALSE]

\* Walker._recursive_walk over root.iterdir(); an exception ends the walk
RecursiveWalk(f, dest, children, rootStr, resource, data, tp) ==
    IF children = <<>> THEN NoPaths
    ELSE LET obj  == Head(children)
             one  == EachObj(f, dest, obj, rootStr \o <<"/">> \o obj.name,
                             resource, data, tp)
             rest == RecursiveWalk(f, dest, Tail(children), rootStr, resource, data, tp)
         IN  IF one.err THEN one
             ELSE [list |-> one.list \o rest.list, warn |-> one.warn \o rest.warn,
                   err |-> rest.err]

\* yaml.dump of a string value, and yaml.safe_load of the rendered text
YamlDump(value) == value \o <<"\n">>

YamlLoad(text) == RemoveSuffix(text, <<"\n">>)

\* the mapping read from the bundle's __meta__.yml ({} when there is none)
MetaOf(res) ==
    IF \E i \in 1..Len(res.children) : res.children[i].name = META_NAME
    THEN LET i == CHOOSE j \in 1..Len(res.children) : res.children[j].name = META_NAME
         IN  res.children[i].meta
    ELSE <<>>

RECURSIVE InjectMeta(_, _, _, _)
\* the loop over found.items() of _per_container: [ok, data]
InjectMeta(meta, rid, data, tp) ==
    IF meta = <<>> THEN [ok |-> TRUE, data |-> data]
    ELSE LET m == Head(meta) IN
         IF m.id # rid THEN InjectMeta(Tail(meta), rid, data, tp)
         ELSE IF m.template /\ tp
              THEN LET r == render_from_content(YamlDump(m.value), data) IN
                   IF ~r.ok THEN [ok |-> FALSE, data |-> data]
                   ELSE InjectMeta(Tail(meta), rid,
                                   SetAttr(data, m.key, YamlLoad(r.text)), tp)
              ELSE InjectMeta(Tail(meta), rid, SetAttr(data, m.key, m.value), tp)

\* Walker._per_container
PerContainer(f, dest, res, rid, data, tp) ==
    LET inj == InjectMeta(MetaOf(res), rid, data, tp) IN
    IF ~inj.ok THEN [list |-> <<>>, warn |-> <<>>, err |-> TRUE]
    ELSE RecursiveWalk(f, dest, res.children, ResourceDir(res.id), res.id, inj.data, tp)

RECURSIVE CollectFromShared(_, _, _, _, _, _)
\* a collect_paths whose bundles all work on one TemplateData object
CollectFromShared(f, dest, rs, rid, data, tp) ==
    IF rs = <<>> THEN NoPaths
    ELSE LET one  == PerContainer(f, dest, Head(rs), rid, data, tp)
             seen == InjectMeta(MetaOf(Head(rs)), rid, data, tp).data
             rest == CollectFromShared(f, dest, Tail(rs), rid, seen, tp)
         IN  IF one.err THEN one
             ELSE [list |-> one.list \o rest.list, warn |-> one.warn \o rest.warn,
                   err |-> rest.err]

RECURSIVE CollectFromTwice(_, _, _, _, _, _)
\* a collect_paths that extends the list with a bundle's entries twice
CollectFromTwice(f, dest, rs, rid, data, tp) ==
    IF rs = <<>> THEN NoPaths
    ELSE LET one  == PerContainer(f, dest, Head(rs), rid, data, tp)
             rest == CollectFromTwice(f, dest, Tail(rs), rid, data, tp)
         IN  IF one.err THEN one
             ELSE [list |-> one.list \o one.list \o rest.list,
                   warn |-> one.warn \o rest.warn, err |-> rest.err]

RECURSIVE CollectFrom(_, _, _, _, _, _)
\* Walker.collect_paths over the bundles rs, in order
CollectFrom(f, dest, rs, rid, data, tp) ==
    IF rs = <<>> THEN NoPaths
    ELSE LET one  == PerContainer(f, dest, Head(rs), rid, data, tp)
             rest == CollectFrom(f, dest, Tail(rs), rid, data, tp)
         IN  IF one.err THEN one
             ELSE [list |-> one.list \o rest.list, warn |-> one.warn \o rest.warn,
                   err |-> rest.err]

----------------------------------------------------------------------------
(* Copier *)

\* Copier._copy_file
CopyFile(f, e) == WriteText(f, e.dest, e.content)

RECURSIVE CopyContainers(_, _)
\* Copier.copy_containers: [fs, err]; an I/O error ends the loop
CopyContainers(f, list) ==
    IF list = <<>> THEN [fs |-> f, err |-> FALSE]
    ELSE LET e  == Head(list)
             f1 == RemoveExisting(f, e.dest)
             r  == IF e.kind = "dir" THEN Mkdir(f1, e.dest) ELSE CopyFile(f1, e)
         IN  IF r.err THEN r ELSE CopyContainers(r.fs, Tail(list))

----------------------------------------------------------------------------
(* The bundles, destinations and template data the runs are drawn from *)

MaxResources == 2

F(name, content) ==
    [name |-> name, kind |-> "file", content |-> content, children |-> <<>>,
     meta |-> <<>>]

D(name, children) ==
    [name |-> name, kind |-> "dir", content |-> <<>>, children |-> children,
     meta |-> <<>>]

NameA == <<"a">>

NameB == <<"b">>

NameAJ2 == <<"a", ".", "j2">>

Files ==
    { F(NameA, <<"x">>), F(NameA, <<"y">>), F(NameB, <<"x">>),
      F(NameAJ2, <<"{{namespace}}">>) }

SubTrees ==
    { <<>>, <<F(NameA, <<"x">>)>>, <<F(NameA, <<"y">>)>>, <<F(NameB, <<"x">>)>>,
      <<F(NameA, <<"x">>), F(NameB, <<"x">>)>>, <<D(NameA, <<>>)>>,
      <<F(NameAJ2, <<"{{namespace}}">>)>> }

Nodes == Files \cup { D(NameA, c) : c \in SubTrees }

\* a bundle is the list of its root's children; a directory has no two
\* children of the same name
Bundles ==
    { <<n>> : n \in Nodes } \cup
    { p \in Nodes \X Nodes : p[1].name # p[2].name }

\* the bundles that are combined into runs of several bundles
SharedBundles ==
    { <<D(NameA, <<F(NameA, <<"x">>)>>)>>, <<D(NameA, <<F(NameB, <<"x">>)>>)>>,
      <<D(NameA, <<>>)>>, <<F(NameA, <<"x">>)>>, <<F(NameA, <<"y">>)>>,
      <<F(NameB, <<"x">>)>> }

ResourceId(i) == <<"common", ".", IF i = 1 THEN "r1" ELSE IF i = 2 THEN "r2" ELSE "r3">>

Named(bs) == [i \in 1..Len(bs) |-> [id |-> ResourceId(i), children |-> bs[i]]]

ResourceLists ==
    { Named(<<b>>) : b \in Bundles } \cup
    UNION { { Named(bs) : bs \in [1..n -> SharedBundles] } : n \in 2..MaxResources }

\* Walker.dest, an existing directory
DestRoot == << <<"w">> >>

EmptyFs == [p \in {} |-> DirEntry]

Ent(v) == IF v = "dir" THEN DirEntry ELSE FileEntry(<<v>>)

Opt(p, v) == IF v = "none" THEN EmptyFs ELSE (p :> Ent(v))

InitFs ==
    { (<<>> :> DirEntry) @@ (DestRoot :> DirEntry)
        @@ Opt(DestRoot \o <<NameA>>, a) @@ Opt(DestRoot \o <<NameA, NameA>>, aa)
        @@ Opt(DestRoot \o <<NameA, NameB>>, ab) @@ Opt(DestRoot \o <<NameB>>, b) :
      <<a, aa, ab, b>> \in
        { t \in {"none", "x", "y", "dir"} \X {"none", "x", "y", "dir"}
                \X {"none", "x"} \X {"none", "x", "dir"} :
            t[1] # "dir" => (t[2] = "none" /\ t[3] = "none") } }

TemplateDatas ==
    { [namespace |-> <<n>>, collection_name |-> <<"c">>] : n \in {"x", "y"} }

----------------------------------------------------------------------------
(* The engine: collect_paths, copy_containers, collect_paths again *)

\* nothing is read from standard input, no API call is made
NoCall ==
    /\ stdin = <<>>
    /\ call = ""
    /\ ret = ""

NoPolicy ==
    /\ op = "none"
    /\ flags = [force |-> FALSE, overwrite |-> FALSE, no_overwrite |-> FALSE]
    /\ plugin = [type |-> "", name |-> <<>>]
    /\ copyCalls = 0
    /\ askCalls = 0
    /\ answer = ""
    /\ prompts = 0
    /\ notes = <<>>
    /\ raised = <<>>

Init ==
    /\ resources \in ResourceLists
    /\ template_data \in TemplateDatas
    /\ templar \in BOOLEAN
    /\ fs \in InitFs
    /\ fs0 = fs
    /\ paths = <<>>
    /\ paths1 = <<>>
    /\ warnings = <<>>
    /\ phase = "start"
    /\ failed = ""
    /\ NoPolicy
    /\ NoCall

\* Walker.resource_id of the engine's runs
EngineId == ResourceId(1)

RECURSIVE RemoveAll(_, _)
RemoveAll(f, ws) ==
    IF ws = <<>> THEN f ELSE RemoveAll(RemoveExisting(f, Head(ws).dest), Tail(ws))

\* a collect_paths that clears the conflicting destinations while it walks
CollectPathsClearing ==
    /\ phase \in {"start", "applied"}
    /\ failed = ""
    /\ LET w == CollectFrom(fs, DestRoot, resources, ResourceId(1), template_data, templar)
       IN  /\ paths' = w.list
           /\ warnings' = w.warn
           /\ failed' = IF w.err THEN "walk" ELSE ""
           /\ fs' = RemoveAll(fs, w.warn)
    /\ phase' = IF phase = "start" THEN "planned" ELSE "replanned"
    /\ UNCHANGED <<resources, template_data, templar, fs0, paths1, op, flags,
                   plugin, copyCalls, askCalls, answer, prompts, notes, raised,
                   stdin, call, ret>>

\* walker.collect_paths(): first on the initial destination, then again after
\* the Copier applied the first FileList
CollectPaths ==
    /\ phase \in {"start", "applied"}
    /\ failed = ""
    /\ LET w == CollectFrom(fs, DestRoot, resources, EngineId, template_data, templar)
       IN  /\ paths' = w.list
           /\ warnings' = w.warn
           /\ failed' = IF w.err THEN "walk" ELSE ""
    /\ phase' = IF phase = "start" THEN "planned" ELSE "replanned"
    /\ UNCHANGED <<resources, template_data, templar, fs, fs0, paths1, op, flags,
                   plugin, copyCalls, askCalls, answer, prompts, notes, raised,
                   stdin, call, ret>>

\* copier.copy_containers(paths)
CopyStep ==
    /\ phase = "planned"
    /\ failed = ""
    /\ LET r == CopyContainers(fs, paths)
       IN  /\ fs' = r.fs
           /\ failed' = IF r.err THEN "copy" ELSE ""
    /\ paths1' = paths
    /\ phase' = "applied"
    /\ copyCalls' = copyCalls + 1
    /\ UNCHANGED <<resources, template_data, templar, fs0, paths, warnings, op,
                   flags, plugin, askCalls, answer, prompts, notes, raised,
                   stdin, call, ret>>

Next == CollectPaths \/ CopyStep

Spec == Init /\ [][Next]_vars

----------------------------------------------------------------------------
(* ask_yes_no *)

MaxInputs == 2

\* what the user may type at a prompt
InputWords == {"y", "n", "Y", "maybe"}

InputSeqs == UNION { [1..n -> InputWords] : n \in 1..MaxInputs }

\* str.lower
Lower(w) == IF w = "Y" THEN "y" ELSE IF w = "N" THEN "n" ELSE w

RECURSIVE AskLoop(_, _)
\* the while loop of ask_yes_no after n reads; input() raises EOFError when
\* nothing is left to read
AskLoop(inputs, n) ==
    IF inputs = <<>> THEN [eof |-> TRUE, answer |-> "", reads |-> n + 1, yes |-> FALSE]
    ELSE LET a == Lower(Head(inputs)) IN
         IF a \in {"y", "n"}
         THEN [eof |-> FALSE, answer |-> a, reads |-> n + 1, yes |-> (a = "y")]
         ELSE AskLoop(Tail(inputs), n + 1)

\* an ask_yes_no that takes the first answer, whatever it is, as consent
AskYesNoFirst(inputs) ==
    [eof |-> FALSE, answer |-> Lower(Head(inputs)), reads |-> 1, yes |-> TRUE]

\* ask_yes_no(question)
AskYesNo(inputs) == AskLoop(inputs, 0)

----------------------------------------------------------------------------
(* The overwrite policy of the scaffold operations *)

MsgRestricts == "The flag --no-overwrite restricts overwriting."

MsgCanBe == "\nThe destination directory contains files that can be overwritten."

MsgRerunLine == "\nPlease re-run ansible-creator with --overwrite to continue."

MsgWillBe == "The destination directory contains files that will be overwritten."

MsgRerun == " Please re-run ansible-creator with --overwrite to continue."

\* the CreatorError of Init._scaffold under --no-overwrite (<<>>: none raised)
InitRefusal(list, fl) ==
    IF fl.no_overwrite
    THEN <<MsgRestricts>> \o
         (IF HasConflicts(list) THEN <<MsgCanBe, MsgRerunLine>> ELSE <<>>)
    ELSE <<>>

\* a refusal that --force overrides
AddRefusalUnlessForce(list, fl) ==
    IF fl.no_overwrite /\ ~fl.force /\ HasConflicts(list)
    THEN <<MsgRestricts, MsgCanBe, MsgRerunLine>>
    ELSE <<>>

\* the CreatorError of Add under --no-overwrite (<<>>: none raised)
AddRefusal(list, fl) ==
    IF fl.no_overwrite /\ HasConflicts(list)
    THEN <<MsgRestricts, MsgCanBe, MsgRerunLine>>
    ELSE <<>>

\* a test that lets only --overwrite skip the question
ProceedsOnOverwriteOnly(list, fl) == ~HasConflicts(list) \/ fl.overwrite

\* `if not paths.has_conflicts() or self._force or self._overwrite`
ProceedsDirectly(list, fl) == ~HasConflicts(list) \/ fl.force \/ fl.overwrite

\* what the operation leaves behind
Result(f, fail, copies, asks, ans, reads, ns, err) ==
    [fs |-> f, failed |-> fail, copyCalls |-> copies, askCalls |-> asks,
     answer |-> ans, prompts |-> reads, notes |-> ns, raised |-> err]

\* copier.copy_containers(paths) followed by output.note
CopyAndNote(f, list, note, asks, ans, reads) ==
    LET r == CopyContainers(f, list) IN
    IF r.err THEN Result(r.fs, "copy", 1, asks, ans, reads, <<>>, <<>>)
    ELSE Result(r.fs, "", 1, asks, ans, reads, <<note>>, <<>>)

\* the operation needs an answer from the user
Asks(list, refusal, fl) ==
    refusal = <<>> /\ ~ProceedsDirectly(list, fl) /\ ~fl.overwrite

\* what the user types when asked (nothing is read otherwise)
InputsFor(list, refusal, fl) == IF Asks(list, refusal, fl) THEN InputSeqs ELSE {<<>>}

\* the code of a scaffold operation after collect_paths returned list
Decide(f, list, refusal, fl, note, inputs) ==
    LET asked == Asks(list, refusal, fl)
        a     == IF asked THEN AskYesNo(inputs)
                 ELSE [eof |-> FALSE, answer |-> "", reads |-> 0, yes |-> FALSE]
    IN  IF refusal # <<>> THEN Result(f, "", 0, 0, "", 0, <<>>, refusal)
        ELSE IF ProceedsDirectly(list, fl) \/ (asked /\ ~a.eof /\ a.yes)
             THEN CopyAndNote(f, list, note, IF asked THEN 1 ELSE 0, a.answer, a.reads)
        ELSE IF asked /\ a.eof
             THEN Result(f, "input", 0, 1, "", a.reads, <<>>, <<>>)
        ELSE IF asked
             THEN Result(f, "", 0, 1, a.answer, a.reads, <<>>, <<MsgWillBe, MsgRerun>>)
        ELSE Result(f, "", 0, 0, "", 0, <<note>>, <<>>)

\* the words of str(path.source) that contain w
Containing(w) ==
    IF w = "action" THEN {"action", "sample_action"} ELSE {w}

\* w in str(path.source), for a word w
HasWord(src, w) == \E i \in 1..Len(src) : src[i] \in Containing(w)

\* Add._plugin_file_conflicts: the entries of list that are kept
KeepPluginFile(e, pl) ==
    IF e.dest # <<>> /\ e.dest[Len(e.dest)] = pl.name \o <<".", "py">>
    THEN IF pl.type = "action"
         THEN \/ HasWord(e.source, "modules")
                   /\ Contains(e.source, <<"sample_action", ".", "py", ".", "j2">>)
              \/ HasWord(e.source, "action")
         ELSE HasWord(e.source, "modules")
                 /\ Contains(e.source, <<"sample_module", ".", "py", ".", "j2">>)
    ELSE TRUE

PluginFileConflicts(list, pl) ==
    IF pl.type \notin {"action", "modules"} THEN list
    ELSE SelectSeq(list, LAMBDA e : KeepPluginFile(e, pl))

\* the outcome of a scaffold operation from collect_paths' return on: the walk
\* raised, or the policy decides
Outcome(w, list, refusal, note, inputs) ==
    IF w.err THEN Result(fs, "walk", 0, 0, "", 0, <<>>, <<>>)
    ELSE Decide(fs, list, refusal, flags, note, inputs)

\* the state a scaffold operation ends in
Finish(w, list, r) ==
    /\ paths' = list
    /\ warnings' = w.warn
    /\ fs' = r.fs
    /\ failed' = r.failed
    /\ copyCalls' = r.copyCalls
    /\ askCalls' = r.askCalls
    /\ answer' = r.answer
    /\ prompts' = r.prompts
    /\ notes' = r.notes
    /\ raised' = r.raised
    /\ paths1' = IF r.copyCalls > 0 THEN list ELSE <<>>
    /\ phase' = "done"
    /\ UNCHANGED <<resources, template_data, templar, fs0, op, flags, plugin,
                   stdin, call, ret>>

\* Init._scaffold
InitScaffold ==
    /\ op = "init" /\ phase = "start"
    /\ \E w \in {CollectFrom(fs, DestRoot, resources, resources[1].id, template_data,
                             templar)} :
       \E refusal \in {InitRefusal(w.list, flags)} :
       \E inputs \in InputsFor(w.list, refusal, flags) :
       \E r \in {Outcome(w, w.list, refusal, "project created", inputs)} :
           Finish(w, w.list, r)

\* Add._perform_resource_scaffold
ResourceScaffold ==
    /\ op = "resource" /\ phase = "start"
    /\ \E w \in {CollectFrom(fs, DestRoot, resources, resources[1].id, template_data,
                             templar)} :
       \E refusal \in {AddRefusal(w.list, flags)} :
       \E inputs \in InputsFor(w.list, refusal, flags) :
       \E r \in {Outcome(w, w.list, refusal, "Resource added", inputs)} :
           Finish(w, w.list, r)

\* Walker.each_obj evaluates self.dest / dest_name: with the list of paths the
\* action plugin passes as dest this raises TypeError at the first node
DestIsList(pl) == pl.type = "action"

\* Walker.collect_paths as Add._perform_plugin_scaffold reaches it
PluginCollect ==
    IF DestIsList(plugin) /\ \E i \in 1..Len(resources) : resources[i].children # <<>>
    THEN [list |-> <<>>, warn |-> <<>>, err |-> TRUE]
    ELSE CollectFrom(fs, DestRoot, resources, resources[1].id, template_data, templar)

\* Add._perform_plugin_scaffold
PluginScaffold ==
    /\ op = "plugin" /\ phase = "start"
    /\ \E w \in {PluginCollect} :
       \E list \in {PluginFileConflicts(w.list, plugin)} :
       \E refusal \in {AddRefusal(list, flags)} :
       \E inputs \in InputsFor(list, refusal, flags) :
       \E r \in {Outcome(w, list, refusal, "plugin added", inputs)} :
           Finish(w, list, r)

NamePy == <<"p", ".", "py">>

PolicyBundles ==
    { <<F(NameA, <<"x">>)>>, <<F(NameA, <<"y">>)>>, <<F(NameB, <<"x">>)>>,
      <<D(NameA, <<F(NameB, <<"x">>)>>)>>, <<F(NamePy, <<"x">>)>>,
      <<F(NameA, <<"x">>), F(NamePy, <<"y">>)>> }

PolicyFs ==
    { (<<>> :> DirEntry) @@ (DestRoot :> DirEntry)
        @@ Opt(DestRoot \o <<NameA>>, a) @@ Opt(DestRoot \o <<NameA, NameB>>, ab)
        @@ Opt(DestRoot \o <<NamePy>>, py) :
      <<a, ab, py>> \in
        { t \in {"none", "x", "y", "dir"} \X {"none", "x"} \X {"none", "x", "y"} :
            t[1] # "dir" => t[2] = "none" } }

PluginId(type) == <<"collection_project", ".", "plugins", ".", type>>

\* the resources each operation hands to its Walker
InitResources ==
    UNION { { Named(bs) : bs \in [1..n -> PolicyBundles] } : n \in 1..MaxResources }

PluginResources(type) ==
    IF type = "action"
    THEN { << [id |-> PluginId(type), children |-> b],
              [id |-> PluginId("modules"), children |-> <<F(NameB, <<"x">>)>>] >> :
           b \in PolicyBundles }
    ELSE { << [id |-> PluginId(type), children |-> b] >> : b \in PolicyBundles }

Flags == [force : BOOLEAN, overwrite : BOOLEAN, no_overwrite : BOOLEAN]

\* the operations with the plugin and the resources each is run with
PolicyRuns ==
    { [op |-> "init", plugin |-> [type |-> "", name |-> <<>>], resources |-> rs] :
        rs \in InitResources } \cup
    { [op |-> "resource", plugin |-> [type |-> "", name |-> <<>>], resources |-> rs] :
        rs \in { Named(<<b>>) : b \in PolicyBundles } } \cup
    UNION { { [op |-> "plugin", plugin |-> pl, resources |-> rs] :
                rs \in PluginResources(pl.type) } :
            pl \in [type : {"action", "filter", "modules"}, name : {<<"p">>, <<"q">>}] }

PolicyInit ==
    /\ \E run \in PolicyRuns :
          /\ op = run.op
          /\ plugin = run.plugin
          /\ resources = run.resources
    /\ flags \in Flags
    /\ template_data \in TemplateDatas
    /\ templar = TRUE
    /\ fs \in PolicyFs
    /\ fs0 = fs
    /\ paths = <<>>
    /\ paths1 = <<>>
    /\ warnings = <<>>
    /\ phase = "start"
    /\ failed = ""
    /\ copyCalls = 0
    /\ askCalls = 0
    /\ answer = ""
    /\ prompts = 0
    /\ notes = <<>>
    /\ raised = <<>>
    /\ NoCall

SpecPolicy ==
    PolicyInit /\ [][InitScaffold \/ ResourceScaffold \/ PluginScaffold]_vars

----------------------------------------------------------------------------
(* Properties of the engine *)

\* the filesystem is a tree: every entry's parent is a directory
FsIsTree == \A p \in DOMAIN fs : p = <<>> \/ IsDir(fs, Parent(p))

\* a destination holding nothing but Walker.dest itself
BareFs == (<<>> :> DirEntry) @@ (DestRoot :> DirEntry)

\* one entry per non-skipped node of the run's bundles, in walk order: in an
\* empty destination every such node needs writing
Planned == CollectFrom(BareFs, DestRoot, resources, EngineId, template_data, templar).list

\* the non-skipped nodes map to pairwise distinct destinations
DistinctDests ==
    \A i, j \in 1..Len(Planned) : i # j => Planned[i].dest # Planned[j].dest

\* destination p holds what entry e plans
Holds(f, e) ==
    IF e.kind = "dir" THEN IsDir(f, e.dest)
    ELSE IsFile(f, e.dest) /\ f[e.dest].content = e.content

\* C1 as stated: after collect_paths and copy_containers, a second
\* collect_paths returns an empty FileList, for any list of bundles
IdempotentAnyBundles ==
    (phase = "replanned" /\ failed = "") => (paths = <<>> /\ ~HasConflicts(paths))

\* C1 amended: the same, for bundles whose non-skipped nodes map to pairwise
\* distinct destinations
IdempotentDistinct ==
    (phase = "replanned" /\ failed = "" /\ DistinctDests)
        => (paths = <<>> /\ ~HasConflicts(paths))

\* C6: after collect_paths and copy_containers of a single bundle with
\* pairwise distinct destinations, every planned directory is a directory and
\* every planned file is a regular file holding its planned content
RepairByOverwrite ==
    (phase = "applied" /\ Len(resources) = 1 /\ DistinctDests)
        => (failed = "" /\ \A i \in 1..Len(Planned) : Holds(fs, Planned[i]))

\* reached: a single bundle repaired a file standing for a directory and a
\* directory standing for a file
RepairWitness ==
    /\ phase = "applied" /\ failed = "" /\ Len(resources) = 1 /\ DistinctDests
    /\ \E i \in 1..Len(paths1) : paths1[i].conflict = "already exists and is a file!"
    /\ \E i \in 1..Len(paths1) : paths1[i].conflict = "already exists and is a directory!"
    /\ \A i \in 1..Len(Planned) : Holds(fs, Planned[i])

\* reached: a second walk after a copy that resolved conflicts found nothing
IdempotentWitness ==
    /\ phase = "replanned" /\ failed = "" /\ DistinctDests
    /\ HasConflicts(paths1)
    /\ paths = <<>>

\* the walk has returned a FileList
Walked == phase \in {"planned", "replanned"} /\ failed = ""

\* the entries of the FileList made from the node whose str() is src
EntriesOf(src) == {i \in 1..Len(paths) : paths[i].source = src}

\* C4: for a bundle file whose destination is a regular file, the entry has a
\* conflict iff the destination content differs from the planned content, and
\* with equal content it has no conflict and needs no write (is not listed)
ConflictIffDiffers ==
    (phase = "planned" /\ failed = "") =>
        \A k \in 1..Len(Planned) :
            LET e == Planned[k] IN
            (e.kind = "file" /\ IsFile(fs, e.dest)) =>
                /\ (fs[e.dest].content # e.content) <=>
                      (\E i \in EntriesOf(e.source) : paths[i].conflict # "")
                /\ (fs[e.dest].content = e.content) => EntriesOf(e.source) = {}

ConflictWitness ==
    /\ phase = "planned" /\ failed = ""
    /\ \E k \in 1..Len(Planned) :
          /\ Planned[k].kind = "file" /\ IsFile(fs, Planned[k].dest)
          /\ fs[Planned[k].dest].content # Planned[k].content
          /\ \E i \in EntriesOf(Planned[k].source) : paths[i].conflict = "already exists"
    /\ \E k \in 1..Len(Planned) :
          /\ Planned[k].kind = "file" /\ IsFile(fs, Planned[k].dest)
          /\ fs[Planned[k].dest].content = Planned[k].content
          /\ EntriesOf(Planned[k].source) = {}

\* source kind and destination kind differ
TypeMismatch(f, e) ==
    \/ e.kind = "file" /\ IsDir(f, e.dest)
    \/ e.kind = "dir" /\ IsFile(f, e.dest)

\* C5: a non-skipped node whose destination exists with the other type is in
\* the FileList with a conflict, so has_conflicts() is true
TypeMismatchConflict ==
    (phase = "planned" /\ failed = "") =>
        \A k \in 1..Len(Planned) :
            TypeMismatch(fs, Planned[k]) =>
                /\ \E i \in EntriesOf(Planned[k].source) : paths[i].conflict # ""
                /\ HasConflicts(paths)

TypeMismatchWitness ==
    /\ phase = "planned" /\ failed = ""
    /\ \E k \in 1..Len(Planned) : Planned[k].kind = "file" /\ TypeMismatch(fs, Planned[k])
    /\ \E k \in 1..Len(Planned) : Planned[k].kind = "dir" /\ TypeMismatch(fs, Planned[k])
    /\ HasConflicts(paths)

\* q lies strictly under p
Under(p, q) == IsPrefix(p, q) /\ p # q

\* C7 as stated: a directory entry precedes every entry whose destination is
\* nested under its destination
DirBeforeNestedDest ==
    Walked =>
        \A i, j \in 1..Len(paths) :
            (paths[i].kind = "dir" /\ Under(paths[i].dest, paths[j].dest)) => i < j

\* C7 amended: a directory entry precedes every entry whose source node is
\* nested under its source node
DirBeforeNestedSource ==
    Walked =>
        \A i, j \in 1..Len(paths) :
            (paths[i].kind = "dir"
                /\ StartsAt(paths[j].source, paths[i].source \o <<"/">>, 1)) => i < j

DirBeforeWitness ==
    /\ Walked
    /\ \E i, j \in 1..Len(paths) :
          /\ paths[i].kind = "dir" /\ i < j
          /\ StartsAt(paths[j].source, paths[i].source \o <<"/">>, 1)
          /\ Under(paths[i].dest, paths[j].dest)

\* C10: collect_paths leaves the destination as it was
PlanReadOnly == [][phase' \in {"planned", "replanned"} => fs' = fs]_vars

PlanReadOnlyWitness ==
    /\ phase = "planned" /\ failed = ""
    /\ HasConflicts(paths) /\ warnings # <<>>
    /\ fs = fs0

----------------------------------------------------------------------------
(* Properties of the overwrite policy, checked under SpecPolicy; paths is   *)
(* the FileList the operation calls has_conflicts() on                      *)

\* the operation ended and its walk had returned a FileList
Decided == phase = "done" /\ failed # "walk"

\* the CreatorError tells the user to re-run with --overwrite
TellsOverwrite(msg) == \E i \in 1..Len(msg) : msg[i] \in {MsgRerunLine, MsgRerun}

NoFlag == ~flags.force /\ ~flags.overwrite /\ ~flags.no_overwrite

\* C2: with no_overwrite set and conflicts in the FileList, copy_containers is
\* not invoked, whatever force and overwrite are, and the CreatorError raised
\* tells the user to re-run with --overwrite
NoOverwriteRefusal ==
    (Decided /\ flags.no_overwrite /\ HasConflicts(paths)) =>
        (copyCalls = 0 /\ fs = fs0 /\ TellsOverwrite(raised))

NoOverwriteWitness ==
    /\ Decided /\ op = "plugin" /\ HasConflicts(paths)
    /\ flags.no_overwrite /\ flags.force /\ flags.overwrite
    /\ copyCalls = 0 /\ TellsOverwrite(raised)

\* C3 as stated: with no conflicts in the FileList every scaffold operation
\* invokes copy_containers and raises no error, whatever the flags
NoConflictAlwaysCopies ==
    (Decided /\ ~HasConflicts(paths)) => (copyCalls = 1 /\ raised = <<>>)

ForceNoPrompt ==
    (Decided /\ HasConflicts(paths) /\ ~flags.no_overwrite
        /\ (flags.force \/ flags.overwrite)) =>
        (copyCalls = 1 /\ askCalls = 0 /\ prompts = 0)

ForceNoPromptWitness ==
    /\ Decided /\ HasConflicts(paths)
    /\ flags.force /\ ~flags.overwrite /\ ~flags.no_overwrite
    /\ copyCalls = 1 /\ askCalls = 0 /\ fs # fs0

----------------------------------------------------------------------------
(* Path planning: bundles whose names hold the PATH_REPLACERS tokens, the   *)
(* template marker and the directories of SKIP_DIRS                         *)

NameOrg == <<"project_org">>

NameRepo == <<"project_repo">>

NameAppJ2 == <<"app", ".", "py", ".", "j2">>

NameF == <<"f">>

NameCache == <<"__pycache__">>

PathBundles ==
    { <<D(NameOrg, <<F(NameAppJ2, <<"x">>)>>)>>,
      <<D(NameOrg, <<F(NameF, <<"x">>)>>)>>,
      <<D(NameOrg, <<F(NameOrg \o <<".", "py">>, <<"x">>)>>)>>,
      <<D(NameOrg, <<D(NameRepo, <<F(NameF, <<"x">>)>>)>>)>>,
      <<F(NameRepo \o <<"_">> \o NameOrg \o <<".", "j2">>, <<"{{namespace}}">>)>>,
      <<D(NameCache, <<F(NameA, <<"x">>)>>), F(NameB, <<"x">>)>>,
      <<F(NameB, <<"x">>), D(NameCache, <<D(NameA, <<F(NameB, <<"x">>)>>)>>)>>,
      <<D(NameA, <<D(NameCache, <<F(NameB, <<"x">>)>>), F(NameA, <<"x">>)>>)>> }

\* TemplateData.namespace and collection_name are any names Config accepts
PathInit ==
    /\ resources \in { Named(<<b>>) : b \in PathBundles }
    /\ template_data \in
          { [namespace |-> n, collection_name |-> c] :
              n \in {<<"acme">>, NameRepo}, c \in {<<"x">>, <<"c">>, NameOrg} }
    /\ templar \in BOOLEAN
    /\ fs \in
          { BareFs @@ Opt(DestRoot \o <<NameCache>>, pc) @@ Opt(DestRoot \o <<NameB>>, b)
              @@ Opt(DestRoot \o <<<<"acme">>>>, acme)
              @@ Opt(DestRoot \o <<NameA>>, a) :
            <<pc, b, acme, a>> \in {"none", "dir", "x"} \X {"none", "x", "y"}
                                     \X {"none", "dir"} \X {"none", "dir"} }
    /\ fs0 = fs
    /\ paths = <<>>
    /\ paths1 = <<>>
    /\ warnings = <<>>
    /\ phase = "start"
    /\ failed = ""
    /\ NoPolicy
    /\ NoCall

SpecPaths == PathInit /\ [][Next]_vars

----------------------------------------------------------------------------
(* Properties of path planning, checked under SpecPaths (one bundle a run) *)

\* the bundle-relative path of the node entry e was made from
RelOf(e) == SubSeq(e.source, Len(ResourceDir(resources[1].id)) + 2, Len(e.source))

RECURSIVE Substitute(_, _, _)
\* every occurrence of the token tok in s replaced by the text val
Substitute(s, tok, val) ==
    IF s = <<>> THEN <<>>
    ELSE (IF Head(s) = tok THEN val ELSE <<Head(s)>>) \o Substitute(Tail(s), tok, val)

\* the tokens of the table replaced one after the other, in table order
SubstitutedInOrder(rel, data) ==
    Substitute(Substitute(rel, "project_org", data.namespace),
               "project_repo", data.collection_name)

RECURSIVE SubstitutedOnce(_, _)
\* the tokens of the table replaced in a single pass over the path
SubstitutedOnce(rel, data) ==
    IF rel = <<>> THEN <<>>
    ELSE (IF Head(rel) = "project_org" THEN data.namespace
          ELSE IF Head(rel) = "project_repo" THEN data.collection_name
          ELSE <<Head(rel)>>) \o SubstitutedOnce(Tail(rel), data)

\* the template marker taken from the end of the path
Stripped(s) ==
    IF Len(s) >= 2 /\ s[Len(s) - 1] = "." /\ s[Len(s)] = "j2"
    THEN SubSeq(s, 1, Len(s) - 2)
    ELSE s

\* a relative path joined onto Walker.dest
Joined(name) == DestRoot \o SelectSegs(SplitOn(name, "/"))

\* C11: the destination of every entry is the node's bundle-relative path with
\* every occurrence of each PATH_REPLACERS token replaced by the mapped
\* TemplateData field, the template marker stripped from the end, joined onto
\* Walker.dest; project_org/app.py.j2 with namespace acme resolves to
\* <dest>/acme/app.py
PathPlanning ==
    \A i \in 1..Len(paths) :
        /\ paths[i].dest =
              Joined(Stripped(SubstitutedInOrder(RelOf(paths[i]), template_data)))
        /\ (RelOf(paths[i]) = NameOrg \o <<"/">> \o NameAppJ2
                /\ template_data.namespace = <<"acme">>)
             => paths[i].dest = DestRoot \o << <<"acme">>, <<"app", ".", "py">> >>

\* reached: project_org/app.py.j2 is planned for <dest>/acme/app.py
PathPlanningWitness ==
    /\ phase = "planned" /\ failed = ""
    /\ template_data.namespace = <<"acme">>
    /\ \E i \in 1..Len(paths) :
          /\ RelOf(paths[i]) = NameOrg \o <<"/">> \o NameAppJ2
          /\ paths[i].dest = DestRoot \o << <<"acme">>, <<"app", ".", "py">> >>

\* C18 as stated: substitution is a single pass, text inserted for one token is
\* never replaced by another; with namespace project_repo and collection_name
\* x, project_org/f resolves to <dest>/project_repo/f
SinglePassSubstitution ==
    \A i \in 1..Len(paths) :
        paths[i].dest =
            Joined(Stripped(SubstitutedOnce(RelOf(paths[i]), template_data)))

\* a node lies in a directory of SKIP_DIRS, or is one
InSkipDir(src) == \E k \in 1..Len(src) : <<src[k]>> \in SKIP_DIRS

\* the files next to a SKIP_DIRS directory at the top of the bundle
SkipSiblings ==
    LET cs == resources[1].children IN
    IF \E k \in 1..Len(cs) : cs[k].kind = "dir" /\ cs[k].name \in SKIP_DIRS
    THEN {cs[k] : k \in {j \in 1..Len(cs) : cs[j].kind = "file"}}
    ELSE {}

\* C12: no node of a SKIP_DIRS directory is in a FileList, nothing is created
\* in the destination under a SKIP_DIRS name, and the files next to the
\* directory are planned when they need writing and are in place after the copy
SkippedDirsLeftOut ==
    /\ \A i \in 1..Len(paths) : ~InSkipDir(paths[i].source)
    /\ \A i \in 1..Len(paths1) : ~InSkipDir(paths1[i].source)
    /\ \A q \in DOMAIN fs :
          (\E k \in 1..Len(q) : q[k] \in SKIP_DIRS) => (q \in DOMAIN fs0 /\ fs[q] = fs0[q])
    /\ \A c \in SkipSiblings :
          LET d == DestRoot \o <<c.name>> IN
          /\ (phase = "planned" /\ failed = ""
                /\ ~(IsFile(fs, d) /\ fs[d].content = c.content))
               => \E i \in 1..Len(paths) : paths[i].dest = d /\ paths[i].content = c.content
          /\ (phase = "applied" /\ failed = "")
               => (IsFile(fs, d) /\ fs[d].content = c.content)

\* reached: a bundle with a __pycache__ directory was copied, its sibling was
\* written and no __pycache__ was created
SkippedDirsWitness ==
    /\ phase = "applied" /\ failed = ""
    /\ SkipSiblings # {}
    /\ paths1 # <<>>
    /\ fs # fs0
    /\ DestRoot \o <<NameCache>> \notin DOMAIN fs

----------------------------------------------------------------------------
(* Init.run: the init path is checked, made, and the project scaffolded *)

MsgIsFile == "already exists, but is a file - aborting"

MsgReinit == "re-initializing existing directory"

\* next(path.iterdir(), None) is not None
NonEmpty(f, p) == \E q \in DOMAIN f : IsPrefix(p, q) /\ q # p

NoRaise(f) == [fs |-> f, raised |-> <<>>, warn |-> <<>>]

\* an init_exists that lets --force clear the init path before it looks at it
InitExistsForceFirst(f, p, fl, rmOk) ==
    IF fl.force
    THEN [fs |-> RemoveExisting(f, p), raised |-> <<>>, warn |-> <<MsgReinit>>]
    ELSE IF IsFile(f, p) THEN [fs |-> f, raised |-> <<MsgIsFile>>, warn |-> <<>>]
    ELSE NoRaise(f)

\* Init.init_exists on the existing path p; rmOk: shutil.rmtree raises no OSError
InitExists(f, p, fl, rmOk) ==
    IF IsFile(f, p) THEN [fs |-> f, raised |-> <<MsgIsFile>>, warn |-> <<>>]
    ELSE IF NonEmpty(f, p) /\ fl.force
         THEN IF rmOk
              THEN [fs |-> Rmtree(f, p), raised |-> <<>>, warn |-> <<MsgReinit>>]
              ELSE [fs |-> f, raised |-> <<"failed to remove existing directory">>,
                    warn |-> <<MsgReinit>>]
    ELSE NoRaise(f)

\* `if self._init_path.exists(): self.init_exists()`
CheckInitPath(f, p, fl, rmOk) ==
    IF Exists(f, p) THEN InitExists(f, p, fl, rmOk) ELSE NoRaise(f)

\* Init._scaffold on the filesystem f that init_exists and mkdir left
ScaffoldOn(f, w, refusal, inputs) ==
    IF w.err THEN Result(f, "walk", 0, 0, "", 0, <<>>, <<>>)
    ELSE Decide(f, w.list, refusal, flags, "project created", inputs)

\* Init.run
InitRun ==
    /\ op = "init" /\ phase = "start"
    /\ \E rmOk \in BOOLEAN :
       \E pre \in {CheckInitPath(fs, DestRoot, flags, rmOk)} :
       \E mk \in {Mkdir(pre.fs, DestRoot)} :
          IF pre.raised # <<>>
          THEN Finish([list |-> <<>>, warn |-> pre.warn, err |-> FALSE], <<>>,
                      Result(pre.fs, "", 0, 0, "", 0, <<>>, pre.raised))
          ELSE IF mk.err
          THEN Finish([list |-> <<>>, warn |-> pre.warn, err |-> FALSE], <<>>,
                      Result(pre.fs, "mkdir", 0, 0, "", 0, <<>>, <<>>))
          ELSE \E w \in {CollectFrom(mk.fs, DestRoot, resources, resources[1].id,
                                     template_data, templar)} :
               \E refusal \in {InitRefusal(w.list, flags)} :
               \E inputs \in InputsFor(w.list, refusal, flags) :
               \E r \in {ScaffoldOn(mk.fs, w, refusal, inputs)} :
                   Finish([list |-> w.list, warn |-> pre.warn \o w.warn, err |-> w.err],
                          w.list, r)

InitRunInit ==
    /\ op = "init"
    /\ plugin = [type |-> "", name |-> <<>>]
    /\ resources \in InitResources
    /\ flags \in Flags
    /\ template_data \in TemplateDatas
    /\ templar = TRUE
    \* the init path is a directory, missing, or a regular file
    /\ fs \in PolicyFs \cup { (<<>> :> DirEntry),
                               (<<>> :> DirEntry) @@ (DestRoot :> FileEntry(<<"x">>)) }
    /\ fs0 = fs
    /\ paths = <<>>
    /\ paths1 = <<>>
    /\ warnings = <<>>
    /\ phase = "start"
    /\ failed = ""
    /\ copyCalls = 0
    /\ askCalls = 0
    /\ answer = ""
    /\ prompts = 0
    /\ notes = <<>>
    /\ raised = <<>>
    /\ NoCall

SpecInit == InitRunInit /\ [][InitRun]_vars

\* C13 as stated, but for the wording of the message: Init.run without force on
\* an existing directory that is not empty raises a CreatorError and leaves the
\* destination as it was
NonEmptyRefused ==
    (phase = "done" /\ ~flags.force /\ IsDir(fs0, DestRoot) /\ NonEmpty(fs0, DestRoot))
        => (raised # <<>> /\ fs = fs0 /\ copyCalls = 0)

\* C14: when the init path is a regular file Init.run raises the CreatorError
\* "already exists, but is a file", whatever the flags, and nothing is
\* removed, created, written or asked
InitPathIsFile ==
    (phase = "done" /\ IsFile(fs0, DestRoot))
        => (raised = <<MsgIsFile>> /\ fs = fs0 /\ copyCalls = 0 /\ askCalls = 0
               /\ notes = <<>> /\ warnings = <<>> /\ paths = <<>>)

\* reached: the init path is a file, --force and --overwrite are given, and
\* the run ended with the error
InitPathIsFileWitness ==
    /\ phase = "done" /\ IsFile(fs0, DestRoot)
    /\ flags.force /\ flags.overwrite
    /\ raised = <<MsgIsFile>> /\ fs = fs0

----------------------------------------------------------------------------
(* ask_yes_no, one input() call a step *)

MaxLines == 3

\* what standard input holds when the question is asked
AskInit ==
    /\ stdin \in UNION { [1..n -> InputWords] : n \in 0..MaxLines }
    /\ call = stdin
    /\ ret = ""
    /\ resources = <<>>
    /\ template_data \in {[namespace |-> <<"x">>, collection_name |-> <<"c">>]}
    /\ templar = FALSE
    /\ fs = BareFs
    /\ fs0 = fs
    /\ paths = <<>>
    /\ paths1 = <<>>
    /\ warnings = <<>>
    /\ phase = "asking"
    /\ failed = ""
    /\ NoPolicy

AskFrame ==
    UNCHANGED <<resources, template_data, templar, fs, fs0, paths, paths1, warnings,
                op, flags, plugin, copyCalls, askCalls, notes, raised, call>>

\* an input() whose answer is compared as typed
AskPromptAsTyped ==
    /\ phase = "asking" /\ answer \notin {"y", "n"} /\ stdin # <<>>
    /\ answer' = Head(stdin)
    /\ stdin' = Tail(stdin)
    /\ prompts' = prompts + 1
    /\ UNCHANGED <<phase, failed, ret>>
    /\ AskFrame

\* `while answer not in ["y", "n"]: answer = input(...).lower()`
AskPrompt ==
    /\ phase = "asking" /\ answer \notin {"y", "n"} /\ stdin # <<>>
    /\ answer' = Lower(Head(stdin))
    /\ stdin' = Tail(stdin)
    /\ prompts' = prompts + 1
    /\ UNCHANGED <<phase, failed, ret>>
    /\ AskFrame

\* input() at the end of standard input raises EOFError
AskEof ==
    /\ phase = "asking" /\ answer \notin {"y", "n"} /\ stdin = <<>>
    /\ prompts' = prompts + 1
    /\ failed' = "input"
    /\ phase' = "done"
    /\ UNCHANGED <<answer, stdin, ret>>
    /\ AskFrame

\* `return answer == "y"`
AskReturn ==
    /\ phase = "asking" /\ answer \in {"y", "n"}
    /\ ret' = IF answer = "y" THEN "True" ELSE "False"
    /\ phase' = "done"
    /\ UNCHANGED <<answer, stdin, prompts, failed>>
    /\ AskFrame

AskNext == AskPrompt \/ AskEof \/ AskReturn

\* the interpreter goes on running the loop
SpecAsk == AskInit /\ [][AskNext]_vars /\ WF_vars(AskNext)

\* line k is the first line that lower-cases to y or n
FirstValid(lines, k) ==
    /\ k \in 1..Len(lines)
    /\ Lower(lines[k]) \in {"y", "n"}
    /\ \A j \in 1..(k - 1) : Lower(lines[j]) \notin {"y", "n"}

\* C15: ask_yes_no returns only after reading a line that lower-cases to y or
\* n, having read and ignored exactly the lines before it; it returns True
\* when that line is y and False when it is n; and when standard input holds
\* such a line it does return
AskUntilValid ==
    /\ [](ret # "" =>
            \E k \in 1..Len(call) :
                /\ FirstValid(call, k)
                /\ prompts = k
                /\ stdin = SubSeq(call, k + 1, Len(call))
                /\ ret = (IF Lower(call[k]) = "y" THEN "True" ELSE "False"))
    /\ [](failed # "" => \A k \in 1..Len(call) : ~FirstValid(call, k))
    /\ ((\E k \in 1..Len(call) : FirstValid(call, k)) ~> (ret # ""))

\* reached: two answers were ignored and the third, Y, was accepted
AskUntilValidWitness ==
    /\ phase = "done" /\ ret = "True"
    /\ prompts = 3 /\ call[3] = "Y"

----------------------------------------------------------------------------
(* V1.run: the programmatic API *)

\* the subparsers of the argument parser: at each parser the dest of its
\* subparsers action and the parsers it leads to
ParserTree ==
    (<<>> :> [dest |-> "subcommand", choices |-> {"init", "add", "schema"}])
    @@ (<<"init">> :> [dest |-> "project", choices |-> {"collection", "playbook"}])
    @@ (<<"add">> :> [dest |-> "type", choices |-> {"resource"}])
    @@ (<<"add", "resource">> :> [dest |-> "resource_type", choices |-> {"devfile"}])

\* the dests of the arguments each leaf parser takes
LeafParams ==
    (<<"init", "collection">> :> {"collection", "init_path", "force"})
    @@ (<<"init", "playbook">> :> {"init_path", "force"})
    @@ (<<"add", "resource", "devfile">> :> {"path", "force"})
    @@ (<<"schema">> :> {"format"})

RECURSIVE WalkToLeaf(_, _)
\* V1._walk_to_leaf from the parser at path[1..n]: [leaf, routing]
WalkToLeaf(path, n) ==
    LET cur == SubSeq(path, 1, n) IN
    IF n < Len(path) /\ cur \in DOMAIN ParserTree /\ path[n + 1] \in ParserTree[cur].choices
    THEN LET r == WalkToLeaf(path, n + 1)
         IN  [leaf |-> r.leaf, routing |-> r.routing \cup {ParserTree[cur].dest}]
    ELSE [leaf |-> cur, routing |-> {}]

\* the dests of the actions of parser leaf, but help and version
ParamsOf(leaf) ==
    IF leaf \in DOMAIN LeafParams THEN LeafParams[leaf]
    ELSE IF leaf \in DOMAIN ParserTree THEN {ParserTree[leaf].dest}
    ELSE {}

\* the TypeError V1._build_argv raises ("" when it returns)
BuildArgvError(c) ==
    LET w == WalkToLeaf(c.path, 0) IN
    IF c.kwargs \cap w.routing # {}
    THEN "Cannot override routing keys derived from the command path"
    ELSE IF c.kwargs \ (ParamsOf(w.leaf) \cup w.routing) # {} THEN "Unknown parameters for command"
    ELSE ""

\* parser.parse_args(argv) returns: the path names a leaf parser and the
\* values pass the parser's own validation (c.parseOk)
ParseAccepts(c) == WalkToLeaf(c.path, 0).leaf = c.path /\ c.path \in DOMAIN LeafParams /\ c.parseOk

\* the message of the error result returned before anything is dispatched
\* ("" when the subcommand is dispatched)
PreDispatch(c) ==
    IF c.path = <<>> THEN "No command path provided."
    ELSE IF BuildArgvError(c) # "" THEN BuildArgvError(c)
    ELSE IF ~ParseAccepts(c) THEN "Invalid arguments for command"
    ELSE ""

\* V1._get_explicit_path(subcommand, kwargs) is not None
HasExplicitPath(c) ==
    \/ c.path[1] = "init" /\ "init_path" \in c.kwargs
    \/ c.path[1] = "add" /\ "path" \in c.kwargs

\* the directory tempfile.mkdtemp(prefix="ansible-creator-") makes
TmpDir == << <<"tmp">>, <<"ansible-creator-", "1">> >>

\* output_dir: None, the caller's path or a new temporary directory
OutputDir(c) ==
    IF c.path[1] \notin {"init", "add"} THEN <<>>
    ELSE IF HasExplicitPath(c) THEN DestRoot
    ELSE TmpDir

CreatorResult(status, path, message) ==
    [status |-> status, path |-> path, message |-> message]

\* a dispatch that returns its error result without the output directory
DispatchedPathless(c, dir) ==
    IF c.outcome = "CreatorError"
    THEN [ret |-> CreatorResult("error", <<>>, c.text), failed |-> "", raised |-> <<c.text>>]
    ELSE IF c.outcome = "Exception"
         THEN [ret |-> "", failed |-> "api", raised |-> <<>>]
    ELSE [ret |-> CreatorResult("success", dir, c.text), failed |-> "", raised |-> <<>>]

\* the try block of V1.run: Config(...), cls(config).run(), the summary message
Dispatched(c, dir) ==
    IF c.outcome = "CreatorError"
    THEN [ret |-> CreatorResult("error", dir, c.text), failed |-> "", raised |-> <<c.text>>]
    ELSE IF c.outcome = "Exception"
         THEN [ret |-> "", failed |-> "api", raised |-> <<>>]
    ELSE [ret |-> CreatorResult("success", dir, c.text), failed |-> "", raised |-> <<>>]

\* V1.run(*command_path, **kwargs)
V1Run ==
    /\ op = "api" /\ phase = "start"
    /\ \E pre \in {PreDispatch(call)} :
          IF pre # ""
          THEN /\ ret' = CreatorResult("error", <<>>, pre)
               /\ UNCHANGED <<fs, failed, raised>>
          ELSE \E dir \in {OutputDir(call)} :
               \E d \in {Dispatched(call, dir)} :
                   /\ fs' = IF dir = TmpDir THEN Mkdir(fs, TmpDir).fs ELSE fs
                   /\ ret' = d.ret
                   /\ failed' = d.failed
                   /\ raised' = d.raised
    /\ phase' = "done"
    /\ UNCHANGED <<resources, template_data, templar, fs0, paths, paths1, warnings,
                   op, flags, plugin, copyCalls, askCalls, answer, prompts, notes,
                   stdin, call>>

ApiInit ==
    \* the command path, the keyword arguments, and what the subcommand does
    \* once dispatched with the text it raises
    /\ call \in
         [path : { <<>>, <<"nonexistent">>, <<"init">>, <<"init", "nonexistent">>,
                   <<"init", "collection">>, <<"init", "playbook">>,
                   <<"add", "resource", "devfile">>, <<"schema">> },
          kwargs : SUBSET {"collection", "init_path", "path", "project", "totally_bogus"},
          parseOk : BOOLEAN,
          outcome : {"returns", "CreatorError", "Exception"},
          text : {"boom"}]
    /\ ret = ""
    /\ stdin = <<>>
    /\ op = "api"
    /\ flags = [force |-> FALSE, overwrite |-> FALSE, no_overwrite |-> FALSE]
    /\ plugin = [type |-> "", name |-> <<>>]
    /\ resources = <<>>
    /\ template_data \in {[namespace |-> <<"x">>, collection_name |-> <<"c">>]}
    /\ templar = TRUE
    /\ fs = BareFs @@ (<< <<"tmp">> >> :> DirEntry)
    /\ fs0 = fs
    /\ paths = <<>>
    /\ paths1 = <<>>
    /\ warnings = <<>>
    /\ phase = "start"
    /\ failed = ""
    /\ copyCalls = 0
    /\ askCalls = 0
    /\ answer = ""
    /\ prompts = 0
    /\ notes = <<>>
    /\ raised = <<>>

SpecApi == ApiInit /\ [][V1Run]_vars

\* the call fails before the subcommand is dispatched: no command path, a
\* routing key or an unknown name among the kwargs, or arguments the parser
\* rejects
FailsBeforeDispatch ==
    \/ call.path = <<>>
    \/ "totally_bogus" \in call.kwargs
    \/ "project" \in call.kwargs /\ call.path \in {<<"init", "collection">>, <<"init", "playbook">>}
    \/ call.path \in {<<"nonexistent">>, <<"init">>, <<"init", "nonexistent">>}
    \/ ~call.parseOk

\* C16: a CreatorError of the dispatched subcommand does not escape V1.run: the
\* result has status error, the error text as message and the output directory
\* as path; a call that fails before dispatch returns status error with path
\* None and creates no temporary directory
NoCreatorErrorEscapes ==
    phase = "done" =>
        /\ raised # <<>> =>
              /\ failed = ""
              /\ ret.status = "error"
              /\ ret.message = raised[1]
              /\ ret.path = (IF call.path[1] = "schema" THEN <<>>
                             ELSE IF "init_path" \in call.kwargs \/ "path" \in call.kwargs
                                  THEN DestRoot
                             ELSE TmpDir)
              /\ ret.path = TmpDir => IsDir(fs, TmpDir)
        /\ FailsBeforeDispatch =>
              /\ failed = ""
              /\ ret.status = "error"
              /\ ret.path = <<>>
              /\ fs = fs0

\* reached: init with no explicit path raised CreatorError("boom"); the result
\* names the temporary directory, which exists
NoCreatorErrorWitness ==
    /\ phase = "done" /\ raised = <<"boom">> /\ failed = ""
    /\ call.path = <<"init", "playbook">> /\ call.kwargs = {}
    /\ ret = CreatorResult("error", TmpDir, "boom")
    /\ IsDir(fs, TmpDir) /\ TmpDir \notin DOMAIN fs0

----------------------------------------------------------------------------
(* Add.update_galaxy_dependency.  The text of galaxy.yml is a sequence of   *)
(* lines [ind, key, val]: `key: val` at indentation ind (val "" when the    *)
(* line ends after the colon).  A YAML value is [t, s, m]: None, a string,  *)
(* a list, or a mapping held as the sequence m of its [k, v] pairs, in      *)
(* order.                                                                   *)

YNone == [t |-> "none", s |-> "", m |-> <<>>]

YStr(x) == [t |-> "str", s |-> x, m |-> <<>>]

YMap(pairs) == [t |-> "map", s |-> "", m |-> pairs]

Line(ind, key, val) == [ind |-> ind, key |-> key, val |-> val]

\* the scalar or flow value written after `key:`
LoadScalar(v) ==
    IF v \in {"null", "~"} THEN YNone
    ELSE IF v = "{}" THEN YMap(<<>>)
    ELSE IF v = "[]" THEN [t |-> "list", s |-> "", m |-> <<>>]
    ELSE IF v = "'*'" THEN YStr("*")
    ELSE YStr(v)

\* the number of indented lines at the head of lines
RECURSIVE Indented(_)
Indented(lines) ==
    IF lines = <<>> \/ Head(lines).ind = 0 THEN 0 ELSE 1 + Indented(Tail(lines))

RECURSIVE LoadPairs(_)
LoadPairs(lines) ==
    IF lines = <<>> THEN <<>>
    ELSE LET h    == Head(lines)
             n    == Indented(Tail(lines))
             kids == SubSeq(lines, 2, n + 1)
             v    == IF h.val # "" THEN LoadScalar(h.val)
                     ELSE IF kids = <<>> THEN YNone
                     ELSE YMap([i \in 1..Len(kids) |->
                                  [k |-> kids[i].key, v |-> LoadScalar(kids[i].val)]])
         IN  <<[k |-> h.key, v |-> v]>> \o LoadPairs(SubSeq(lines, n + 2, Len(lines)))

\* yaml.safe_load of the text of a file (an empty document is None)
SafeLoad(lines) == IF lines = <<>> THEN YNone ELSE YMap(LoadPairs(lines))

\* how yaml.dump writes a string
DumpScalar(x) == IF x = "*" THEN "'*'" ELSE x

RECURSIVE DumpPairs(_)
\* the lines yaml.dump(data, file, sort_keys=False) writes for a mapping
DumpPairs(pairs) ==
    IF pairs = <<>> THEN <<>>
    ELSE LET p == Head(pairs)
             l == IF p.v.t = "str" THEN <<Line(0, p.k, DumpScalar(p.v.s))>>
                  ELSE IF p.v.t = "none" THEN <<Line(0, p.k, "null")>>
                  ELSE IF p.v.t = "list" THEN <<Line(0, p.k, "[]")>>
                  ELSE IF p.v.m = <<>> THEN <<Line(0, p.k, "{}")>>
                  ELSE <<Line(0, p.k, "")>> \o
                       [i \in 1..Len(p.v.m) |->
                          Line(1, p.v.m[i].k, DumpScalar(p.v.m[i].v.s))]
         IN  l \o DumpPairs(Tail(pairs))

\* key in mapping
HasKey(pairs, key) == \E i \in 1..Len(pairs) : pairs[i].k = key

\* mapping[key]
Lookup(pairs, key) == pairs[CHOOSE i \in 1..Len(pairs) : pairs[i].k = key].v

\* mapping[key] = value
SetKey(pairs, key, value) ==
    IF HasKey(pairs, key)
    THEN [i \in 1..Len(pairs) |-> IF pairs[i].k = key THEN [k |-> key, v |-> value]
                                  ELSE pairs[i]]
    ELSE Append(pairs, [k |-> key, v |-> value])

AnsibleUtils == "ansible.utils"

\* the statements of update_galaxy_dependency between the load and the save:
\* [ok, data]; not ok when one of them raises TypeError
AddDependency(data) ==
    IF data.t # "map" THEN [ok |-> FALSE, data |-> data]
    ELSE IF ~HasKey(data.m, "dependencies")
         THEN [ok |-> TRUE,
               data |-> YMap(SetKey(data.m, "dependencies",
                                    YMap(<<[k |-> AnsibleUtils, v |-> YStr("*")]>>)))]
    ELSE LET deps  == Lookup(data.m, "dependencies")
             \* `not data["dependencies"]`
             falsy == \/ deps.t = "none"
                      \/ deps.t = "str" /\ deps.s = ""
                      \/ deps.t \in {"map", "list"} /\ deps.m = <<>>
             \* `"ansible.utils" in data["dependencies"]`
             in    == IF deps.t = "map" THEN HasKey(deps.m, AnsibleUtils)
                      ELSE deps.t = "str" /\ deps.s = AnsibleUtils
         IN
         IF falsy \/ ~in
         THEN IF deps.t # "map" THEN [ok |-> FALSE, data |-> data]
              ELSE [ok |-> TRUE,
                    data |-> YMap(SetKey(data.m, "dependencies",
                                         YMap(SetKey(deps.m, AnsibleUtils, YStr("*")))))]
         ELSE [ok |-> TRUE, data |-> data]

GalaxyFile == DestRoot \o << <<"galaxy", ".", "yml">> >>

\* Add.update_galaxy_dependency on filesystem f: [fs, err]
UpdateGalaxy(f) ==
    IF ~IsFile(f, GalaxyFile) THEN [fs |-> f, err |-> TRUE]
    ELSE LET r == AddDependency(SafeLoad(f[GalaxyFile].content)) IN
         IF ~r.ok THEN [fs |-> f, err |-> TRUE]
         ELSE WriteText(f, GalaxyFile, DumpPairs(r.data.m))

\* the texts of galaxy.yml: a name, maybe one more key, and a dependencies
\* block, written before or after them
GalaxyTexts ==
    LET blocks ==
          { <<>>,
            <<Line(0, "dependencies", "")>>,
            <<Line(0, "dependencies", "null")>>,
            <<Line(0, "dependencies", "{}")>>,
            <<Line(0, "dependencies", "[]")>> } \cup
          { <<Line(0, "dependencies", "")>> \o ls :
              ls \in { <<Line(1, AnsibleUtils, "'*'")>>,
                       <<Line(1, AnsibleUtils, "1.0.0")>>,
                       <<Line(1, "another.dep", "1.0.0")>>,
                       <<Line(1, "another.dep", "1.0.0"), Line(1, AnsibleUtils, "1.0.0")>>,
                       <<Line(1, AnsibleUtils, "'*'"), Line(1, "another.dep", "2.0.0")>>,
                       <<Line(1, "another.dep", "1.0.0"), Line(1, "third.dep", "'*'")>> } }
    IN  { <<>> } \cup
        { <<Line(0, "name", "test_collection")>> \o v \o d : v \in
              { <<>>, <<Line(0, "version", "1.0.0")>>, <<Line(0, "license", "~")>> },
            d \in blocks } \cup
        { d \o <<Line(0, "name", "test_collection")>> : d \in blocks \ {<<>>} }

GalaxyInit ==
    /\ fs \in { BareFs } \cup { BareFs @@ (GalaxyFile :> FileEntry(t)) : t \in GalaxyTexts }
    /\ fs0 = fs
    /\ op = "galaxy"
    /\ flags = [force |-> FALSE, overwrite |-> FALSE, no_overwrite |-> FALSE]
    /\ plugin = [type |-> "", name |-> <<>>]
    /\ resources = <<>>
    /\ template_data \in {[namespace |-> <<"x">>, collection_name |-> <<"c">>]}
    /\ templar = TRUE
    /\ paths = <<>>
    /\ paths1 = <<>>
    /\ warnings = <<>>
    /\ phase = "start"
    /\ failed = ""
    /\ copyCalls = 0
    /\ askCalls = 0
    /\ answer = ""
    /\ prompts = 0
    /\ notes = <<>>
    /\ raised = <<>>
    /\ NoCall

\* add.update_galaxy_dependency(), and the same call once more
GalaxyUpdate ==
    /\ op = "galaxy" /\ phase \in {"start", "updated"} /\ failed = ""
    /\ \E r \in {UpdateGalaxy(fs)} :
          /\ fs' = r.fs
          /\ failed' = IF r.err THEN "galaxy" ELSE ""
    /\ phase' = IF phase = "start" THEN "updated" ELSE "updated again"
    /\ UNCHANGED <<resources, template_data, templar, fs0, paths, paths1, warnings,
                   op, flags, plugin, copyCalls, askCalls, answer, prompts, notes,
                   raised, stdin, call, ret>>

SpecGalaxy == GalaxyInit /\ [][GalaxyUpdate]_vars

\* the dependencies mapping of galaxy.yml in f (empty when there is none)
DepsOf(f) ==
    LET data == SafeLoad(f[GalaxyFile].content) IN
    IF data.t = "map" /\ HasKey(data.m, "dependencies")
          /\ Lookup(data.m, "dependencies").t = "map"
    THEN Lookup(data.m, "dependencies").m
    ELSE <<>>

\* C17 as stated: for any galaxy.yml content, after update_galaxy_dependency
\* the dependencies mapping has the key ansible.utils, every dependency the
\* file had is kept with its version, and a second call changes nothing
GalaxyDependencyAdded ==
    /\ []((phase \in {"updated", "updated again"} /\ IsFile(fs0, GalaxyFile)) =>
            /\ failed = ""
            /\ HasKey(DepsOf(fs), AnsibleUtils)
            /\ \A i \in 1..Len(DepsOf(fs0)) :
                  /\ HasKey(DepsOf(fs), DepsOf(fs0)[i].k)
                  /\ Lookup(DepsOf(fs), DepsOf(fs0)[i].k) = DepsOf(fs0)[i].v)
    /\ [][phase = "updated" => fs' = fs]_vars

----------------------------------------------------------------------------
(* collect_paths, a change of the destination by another process, then
   copy_containers *)

RECURSIVE CopyTrace(_, _)
\* the iterations of the loop of Copier.copy_containers: the filesystem
\* before the entry, the entry, the filesystem after it, and whether the
\* entry raised
CopyTrace(f, list) ==
    IF list = <<>> THEN <<>>
    ELSE LET e  == Head(list)
             f1 == RemoveExisting(f, e.dest)
             r  == IF e.kind = "dir" THEN Mkdir(f1, e.dest) ELSE CopyFile(f1, e)
         IN  <<[before |-> f, entry |-> e, after |-> r.fs, err |-> r.err]>>
                \o (IF r.err THEN <<>> ELSE CopyTrace(r.fs, Tail(list)))

RaceInit ==
    /\ resources \in { Named(<<b>>) : b \in SharedBundles }
                        \cup { Named(bs) : bs \in [1..2 -> SharedBundles] }
    /\ template_data \in {[namespace |-> <<"x">>, collection_name |-> <<"c">>]}
    /\ templar = TRUE
    /\ fs \in InitFs
    /\ fs0 = fs
    /\ paths = <<>>
    /\ paths1 = <<>>
    /\ warnings = <<>>
    /\ phase = "start"
    /\ failed = ""
    /\ NoPolicy
    /\ NoCall

\* one change of the destination by another process, after the walk
ExternalChange ==
    /\ phase = "planned"
    /\ failed = ""
    /\ fs = fs0
    /\ fs' \in { Rmtree(fs, DestRoot), Rmtree(fs, DestRoot \o <<NameA>>),
                 Mkdir(fs, DestRoot \o <<NameA>>).fs,
                 WriteText(fs, DestRoot \o <<NameA>>, <<"z">>).fs,
                 WriteText(fs, DestRoot \o <<NameB>>, <<"z">>).fs } \ {fs}
    /\ UNCHANGED <<resources, template_data, templar, fs0, paths, paths1, warnings,
                   phase, failed, op, flags, plugin, copyCalls, askCalls, answer,
                   prompts, notes, raised, stdin, call, ret>>

SpecRace == RaceInit /\ [][CollectPaths \/ ExternalChange \/ CopyStep]_vars

\* the same runs with no other process at work
SpecShared == RaceInit /\ [][Next]_vars

\* the loop iterations of the copy_containers call that a step makes
Applying == IF phase = "planned" /\ failed = "" THEN CopyTrace(fs, paths) ELSE <<>>

\* C19 as stated: while copy_containers runs, an entry whose conflict is empty
\* removes nothing, neither a file nor a directory tree, whether its
\* destination was made by an earlier entry or by another process
RemovesOnlyConflicting ==
    [][phase' = "applied" =>
         \A t \in {Applying} : \A i \in 1..Len(t) :
            t[i].entry.conflict = "" =>
                RemoveExisting(t[i].before, t[i].entry.dest) = t[i].before]_vars

\* some directory on the way to p is missing, and none of them is a file
ParentMissing(f, p) ==
    /\ p # <<>>
    /\ ~Exists(f, Parent(p))
    /\ \A i \in 0..(Len(p) - 1) : ~IsFile(f, SubSeq(p, 1, i))

\* C20 as stated: while copy_containers runs, a file entry whose parent
\* directory is missing is written all the same: the parents are made and the
\* destination holds the planned content
WritesUnderMissingParent ==
    [][phase' = "applied" =>
         \A t \in {Applying} : \A i \in 1..Len(t) :
            (t[i].entry.kind = "file" /\ ParentMissing(t[i].before, t[i].entry.dest)) =>
                /\ ~t[i].err
                /\ IsDir(t[i].after, Parent(t[i].entry.dest))
                /\ IsFile(t[i].after, t[i].entry.dest)
                /\ t[i].after[t[i].entry.dest].content = t[i].entry.content]_vars

----------------------------------------------------------------------------
(* Walks over bundles that hold compiled files, __meta__.yml files and      *)
(* placeholder directories                                                  *)

\* a bundle's __meta__.yml holding, under the key id, the variables vs
MetaFile(vs) ==
    [name |-> META_NAME, kind |-> "file", content |-> <<>>, children |-> <<>>,
     meta |-> vs]

WalkInit ==
    /\ resources \in
         LET pyc(n) == n \o <<".", "pyc">>
             j2(n)  == n \o <<".", "j2">>
             var(k, v, t) == [id |-> EngineId, key |-> k, value |-> v, template |-> t]
             bundles ==
               { <<F(pyc(NameA), <<"x">>)>>,
                 <<F(pyc(NameA), <<"x">>), F(NameB, <<"x">>)>>,
                 <<D(NameA, <<F(pyc(NameB), <<"x">>)>>)>>,
                 <<MetaFile(<<var("namespace", <<"m">>, FALSE)>>),
                   F(NameAJ2, <<"{{namespace}}">>)>>,
                 <<MetaFile(<<var("extra", <<"{{collection_name}}">>, TRUE)>>),
                   F(NameAJ2, <<"{{extra}}">>)>>,
                 <<F(j2(NameB), <<"{{namespace}}">>)>>,
                 <<F(j2(NameB), <<"{{extra}}">>)>>,
                 <<D(<<"project_org">>, <<F(NameB, <<"x">>)>>)>> }
         IN  { Named(<<b>>) : b \in bundles }
                \cup { Named(bs) : bs \in [1..2 -> bundles] }
    /\ template_data \in
         { [namespace |-> n, collection_name |-> <<"c">>] : n \in {<<"x">>, <<>>} }
    /\ templar \in BOOLEAN
    /\ fs \in { BareFs @@ Opt(DestRoot \o <<NameA \o <<".", "pyc">>>>, p)
                  @@ Opt(DestRoot \o <<NameB>>, b) @@ Opt(DestRoot \o <<NameA>>, a) :
                <<p, b, a>> \in {"none", "x", "y"} \X {"none", "x", "y"} \X {"none", "x"} }
    /\ fs0 = fs
    /\ paths = <<>>
    /\ paths1 = <<>>
    /\ warnings = <<>>
    /\ phase = "start"
    /\ failed = ""
    /\ NoPolicy
    /\ NoCall

SpecWalk == WalkInit /\ [][Next]_vars

\* the name ends with a suffix of SKIP_FILES_TYPES
IsSkippedType(name) == \E suf \in SKIP_FILES_TYPES : EndsWith(name, suf)

\* C21 as stated: a bundle file with the extension .pyc is in no FileList of
\* collect_paths, and copy_containers leaves its destination as it was,
\* absent, identical or different
SkippedTypesLeftOut ==
    /\ \A i \in 1..Len(paths) : ~IsSkippedType(paths[i].name)
    /\ \A p \in DOMAIN fs \cup DOMAIN fs0 :
          (p # <<>> /\ IsSkippedType(p[Len(p)])) =>
              p \in DOMAIN fs /\ p \in DOMAIN fs0 /\ fs[p] = fs0[p]

----------------------------------------------------------------------------
(* Properties of the walk below directories that already exist *)

\* C22: the walk goes into a directory whether or not the directory is
\* listed: a non-skipped bundle file, at any depth, whose destination is a
\* regular file of other content is listed with a conflict, has_conflicts()
\* is true and a warning names it; one whose destination is absent under an
\* existing directory is listed without conflict
NestedConflictFound ==
    (phase = "planned" /\ failed = "") =>
        \A e \in {Planned[k] : k \in 1..Len(Planned)} :
            /\ (e.kind = "file" /\ IsFile(fs, e.dest) /\ fs[e.dest].content # e.content) =>
                  /\ \E i \in EntriesOf(e.source) :
                        paths[i].dest = e.dest /\ paths[i].conflict # ""
                  /\ HasConflicts(paths)
                  /\ \E w \in 1..Len(warnings) : warnings[w].dest = e.dest
            /\ (e.kind = "file" /\ ~Exists(fs, e.dest) /\ IsDir(fs, Parent(e.dest))) =>
                  \E i \in EntriesOf(e.source) : paths[i].conflict = ""

\* reached: the directory a exists and is not listed, the file a/a under it
\* differs from the bundle's and is listed with a conflict and a warning
NestedConflictWitness ==
    /\ phase = "planned" /\ failed = ""
    /\ IsDir(fs, DestRoot \o <<NameA>>)
    /\ \A i \in 1..Len(paths) : paths[i].dest # DestRoot \o <<NameA>>
    /\ \E i \in 1..Len(paths) :
          /\ paths[i].dest = DestRoot \o <<NameA, NameA>>
          /\ paths[i].conflict = "already exists"
    /\ HasConflicts(paths)
    /\ \E w \in 1..Len(warnings) : warnings[w].dest = DestRoot \o <<NameA, NameA>>

----------------------------------------------------------------------------
(* TemplateData during collect_paths *)

\* the data bundle i is rendered with: Walker.template_data and what the
\* bundle's own __meta__.yml adds
OwnData(i) == InjectMeta(MetaOf(resources[i]), EngineId, template_data, templar).data

\* the files at the top of bundle i, each with its str()
TopFiles(i) ==
    { [src |-> ResourceDir(resources[i].id) \o <<"/">> \o resources[i].children[k].name,
       node |-> resources[i].children[k]] :
      k \in { j \in 1..Len(resources[i].children) :
                resources[i].children[j].kind = "file" } }

\* C23: collect_paths leaves Walker.template_data as it was, and every bundle
\* is rendered with the caller's data and its own __meta__.yml only: a listed
\* file holds what that data renders, and a template reading a field that
\* only another bundle's __meta__.yml defines fails the walk
TemplateDataIsolated ==
    /\ []((phase = "planned") =>
            \A i \in 1..Len(resources) : \A t \in TopFiles(i) :
               /\ ~SetContent(t.node, OwnData(i), templar).ok => failed = "walk"
               /\ failed = "" =>
                     \A e \in EntriesOf(t.src) :
                        paths[e].content = SetContent(t.node, OwnData(i), templar).text)
    /\ [][template_data' = template_data]_vars

\* reached: the first bundle's __meta__.yml set namespace to m and its
\* template was rendered with m; the second bundle's template was rendered
\* with the caller's namespace
TemplateDataWitness ==
    /\ phase = "planned" /\ failed = "" /\ templar /\ Len(resources) = 2
    /\ MetaOf(resources[1]) # <<>> /\ MetaOf(resources[2]) = <<>>
    /\ template_data.namespace = <<"x">>
    /\ \E i, j \in 1..Len(paths) :
          /\ paths[i].dest = DestRoot \o <<NameA>> /\ paths[i].content = <<"m">>
          /\ paths[j].dest = DestRoot \o <<NameB>> /\ paths[j].content = <<"x">>

----------------------------------------------------------------------------
(* What the scaffold operations leave of the destination *)

\* C24 as stated: with no_overwrite set, whatever the other flags, Init.run
\* leaves every entry the destination had before the run in place and
\* unchanged
NoOverwriteKeepsAll ==
    (op = "init" /\ flags.no_overwrite) =>
        \A p \in DOMAIN fs0 : p \in DOMAIN fs /\ fs[p] = fs0[p]

----------------------------------------------------------------------------
(* Add.run: the checks of the add path, the directories and the galaxy.yml  *)
(* update that come before the scaffold, then the scaffold.  The resource   *)
(* types are those that read nothing from the collection (every type but    *)
(* role).                                                                    *)

\* plugin_path = add_path / "plugins" / plugin_type
PluginPath(type) == DestRoot \o << <<"plugins">>, <<type>> >>

\* an operation that ended before its Walker was made: it raised the
\* CreatorError err, or an exception of another kind escaped at fail
EndsEarly(f, fail, err) ==
    Finish(NoPaths, <<>>, Result(f, fail, 0, 0, "", 0, <<>>, err))

\* a preparation that adds the ansible.utils dependency for every plugin type
PreparePluginAnyType(f, type) ==
    LET mk == Mkdir(f, PluginPath(type))
        g  == IF mk.err THEN mk ELSE UpdateGalaxy(mk.fs)
    IN  IF g.err \/ type # "action" THEN g ELSE Mkdir(g.fs, PluginPath("modules"))

\* what Add.run does for a plugin between _check_collection_path and the
\* Walker: [fs, err]
PreparePlugin(f, type) ==
    LET mk == Mkdir(f, PluginPath(type))
        g  == IF mk.err \/ type # "action" THEN mk ELSE UpdateGalaxy(mk.fs)
    IN  IF g.err \/ type # "action" THEN g ELSE Mkdir(g.fs, PluginPath("modules"))

\* Add.run
AddRun ==
    /\ op \in {"resource", "plugin"} /\ phase = "start"
    /\ IF ~Exists(fs, DestRoot)
       THEN EndsEarly(fs, "", <<"The path does not exist.">>)
       ELSE IF op = "resource"
       THEN \E w \in {CollectFrom(fs, DestRoot, resources, resources[1].id,
                                  template_data, templar)} :
            \E refusal \in {AddRefusal(w.list, flags)} :
            \E inputs \in InputsFor(w.list, refusal, flags) :
            \E r \in {Outcome(w, w.list, refusal, "Resource added", inputs)} :
                Finish(w, w.list, r)
       ELSE IF ~IsFile(fs, GalaxyFile)
       THEN EndsEarly(fs, "", <<"The path is not a valid Ansible collection path.">>)
       ELSE \E pre \in {PreparePlugin(fs, plugin.type)} :
            IF pre.err THEN EndsEarly(pre.fs, "prepare", <<>>)
            ELSE \E w \in {IF DestIsList(plugin)
                              /\ \E i \in 1..Len(resources) : resources[i].children # <<>>
                           THEN [list |-> <<>>, warn |-> <<>>, err |-> TRUE]
                           ELSE CollectFrom(pre.fs, PluginPath(plugin.type), resources,
                                            resources[1].id, template_data, templar)} :
                 \E list \in {PluginFileConflicts(w.list, plugin)} :
                 \E refusal \in {AddRefusal(list, flags)} :
                 \E inputs \in InputsFor(list, refusal, flags) :
                 \E r \in {IF w.err THEN Result(pre.fs, "walk", 0, 0, "", 0, <<>>, <<>>)
                           ELSE Decide(pre.fs, list, refusal, flags, "plugin added",
                                       inputs)} :
                     Finish(w, list, r)

AddInit ==
    /\ \E run \in { r \in PolicyRuns : r.op # "init" } :
          /\ op = run.op
          /\ plugin = run.plugin
          /\ resources = run.resources
    /\ flags \in Flags
    /\ template_data \in {[namespace |-> <<"x">>, collection_name |-> <<"c">>]}
    /\ templar = TRUE
    \* the add path is missing, or a directory: with or without galaxy.yml,
    \* a file a, the directory plugins and the plugin directories in it
    /\ fs \in
         LET types   == {"action", "filter", "modules"}
             plugins == (DestRoot \o << <<"plugins">> >>) :> DirEntry
             typed   == plugins @@ [q \in {PluginPath(t) : t \in types} |-> DirEntry]
         IN  { (<<>> :> DirEntry) } \cup
             { BareFs @@ g @@ Opt(DestRoot \o <<NameA>>, a) @@ pd :
                 g \in { EmptyFs,
                         GalaxyFile :> FileEntry(<<Line(0, "name", "c")>>),
                         GalaxyFile :> FileEntry(<<Line(0, "name", "c"),
                                                   Line(0, "dependencies", "")>>) },
                 a \in {"none", "y"},
                 pd \in { EmptyFs, plugins, typed } \cup
                        { typed @@ [q \in {PluginPath(t) \o <<NameA>> : t \in types}
                                      |-> FileEntry(<<c>>)] : c \in {"x", "y"} } }
    /\ fs0 = fs
    /\ paths = <<>>
    /\ paths1 = <<>>
    /\ warnings = <<>>
    /\ phase = "start"
    /\ failed = ""
    /\ copyCalls = 0
    /\ askCalls = 0
    /\ answer = ""
    /\ prompts = 0
    /\ notes = <<>>
    /\ raised = <<>>
    /\ NoCall

SpecAdd == AddInit /\ [][AddRun]_vars

\* the run ended with a refusal of the conflict policy
Refused ==
    /\ phase = "done" /\ failed = ""
    /\ raised \in { <<MsgRestricts, MsgCanBe, MsgRerunLine>>, <<MsgWillBe, MsgRerun>> }

----------------------------------------------------------------------------
(* The destinations of a FileList *)

----------------------------------------------------------------------------
(* What copy_containers does to files it was not asked to write *)

\* the regular files of f that are the destination of no entry of list
Bystanders(f, list) ==
    { p \in DOMAIN f : IsFile(f, p) /\ \A i \in 1..Len(list) : list[i].dest # p }

\* C27: when nothing changed the destination since the walk, copy_containers
\* leaves every regular file that is no entry's destination in place with
\* its content, unless the file lies under a directory that stands where the
\* bundle has a file (the entry with the type-mismatch conflict removes the
\* directory)
BystandersKept ==
    [][(phase = "planned" /\ phase' = "applied" /\ fs = fs0) =>
          \A p \in Bystanders(fs, paths) :
             \/ p \in DOMAIN fs' /\ fs'[p] = fs[p]
             \/ \E i \in 1..Len(paths) :
                   /\ paths[i].kind = "file" /\ IsDir(fs, paths[i].dest)
                   /\ paths[i].conflict = "already exists and is a directory!"
                   /\ Under(paths[i].dest, p)]_vars

\* reached: the bundle's file a replaced the directory a and the file that
\* was in it, while the file b beside it, which no entry names, was kept
BystandersWitness ==
    /\ phase = "applied" /\ failed = ""
    /\ \E i \in 1..Len(paths1) :
          /\ paths1[i].dest = DestRoot \o <<NameA>>
          /\ paths1[i].conflict = "already exists and is a directory!"
    /\ \A i \in 1..Len(paths1) : paths1[i].dest # DestRoot \o <<NameB>>
    /\ IsFile(fs0, DestRoot \o <<NameA, NameB>>) /\ IsFile(fs, DestRoot \o <<NameA>>)
    /\ IsFile(fs0, DestRoot \o <<NameB>>)
    /\ fs[DestRoot \o <<NameB>>] = fs0[DestRoot \o <<NameB>>]

\* C28 as stated: every destination of a FileList lies inside Walker.dest,
\* one or more segments below it, whatever the TemplateData fields that are
\* substituted into paths hold
DestsInsideDest ==
    Walked => \A i \in 1..Len(paths) : Under(DestRoot, paths[i].dest)

----------------------------------------------------------------------------
(* The ways a scaffold operation ends, checked under SpecPolicy             *)

\* the run ended with copy_containers completed and one success note
EndsCopied ==
    copyCalls = 1 /\ failed = "" /\ raised = <<>> /\ Len(notes) = 1

\* the run ended with a CreatorError, nothing copied and nothing noted
EndsRefused ==
    raised # <<>> /\ failed = "" /\ copyCalls = 0 /\ notes = <<>> /\ fs = fs0

\* C29 as stated: every run of a scaffold operation invokes copy_containers
\* at most once and ends in exactly one of two ways: copy_containers
\* completed and exactly one success note, or a CreatorError with
\* copy_containers never invoked and no success note
EndsOneOfTwoWays ==
    phase = "done" =>
        /\ copyCalls <= 1
        /\ EndsCopied \/ EndsRefused
        /\ ~(EndsCopied /\ EndsRefused)

----------------------------------------------------------------------------
(* Create.run and CreatorCreate.run: a content definition is a record       *)
(* [collection, plugins]; a dict is a function from its keys; call holds    *)
(* the content definition safe_load returned together with what the schema  *)
(* validation reports; ret is the sequence of the scaffolder calls made,    *)
(* [item |-> position in plugins, config |-> the keyword arguments]         *)

MaxItems == 2

\* the modules of ansible_creator.scaffolders that hold a Scaffolder class
ScaffolderTypes == {"module_network_cli", "module_network_netconf"}

\* dict.update: the keys of item are set in data
DictUpdate(data, item) == item @@ data

RECURSIVE CreateLoop(_, _, _, _)
\* the for loop of Create.run from item i on, with the one dict data that the
\* loop updates in place: [calls, raised, notes]
CreateLoop(items, data, i, calls) ==
    IF i > Len(items)
    THEN [calls |-> calls, raised |-> <<>>,
          notes |-> <<"all scaffolding tasks completed!">>]
    ELSE LET d == DictUpdate(data, items[i]) IN
         IF items[i].type \in {"action", "filter", "cache", "test"}
         THEN CreateLoop(items, d, i + 1, calls)
         ELSE IF items[i].type \notin ScaffolderTypes
         THEN [calls |-> calls, notes |-> <<>>,
               raised |-> <<"Unable to load scaffolder class for plugin type">>]
         ELSE CreateLoop(items, d, i + 1, Append(calls, [item |-> i, config |-> d]))

RECURSIVE CreatorCreateLoop(_, _, _, _)
\* the for loop of CreatorCreate.run: data is a deep copy of the item, updated
\* with the collection's keys prefixed by collection_
CreatorCreateLoop(items, coll, i, calls) ==
    IF i > Len(items) THEN [calls |-> calls, raised |-> <<>>, notes |-> <<>>]
    ELSE LET d == DictUpdate(items[i],
                             [collection_path |-> coll.path,
                              collection_name |-> coll.name,
                              collection_namespace |-> coll.namespace])
         IN
         IF items[i].type \in {"action", "filter", "cache", "test"}
         THEN CreatorCreateLoop(items, coll, i + 1, calls)
         ELSE IF items[i].type \notin ScaffolderTypes
         THEN [calls |-> calls, notes |-> <<>>,
               raised |-> <<"Unable to load scaffolder class for plugin type">>]
         ELSE CreatorCreateLoop(items, coll, i + 1,
                                Append(calls, [item |-> i, config |-> d]))

\* what Create.run and CreatorCreate.run do before their loops: load_config,
\* the test for plugins, validate_config; <<>> when the loop is reached
BeforeLoop(c) ==
    IF c.file = "missing" THEN <<"Could not detect the content definition file.">>
    ELSE IF c.plugins = <<>> THEN <<>>
    ELSE IF c.errors # <<>>
         THEN <<"The following errors were found while validating:">> \o c.errors
    ELSE <<>>

\* Create.run (subcommands/create.py) and CreatorCreate.run (actions/create.py)
CreateRun ==
    /\ op \in {"create", "creator_create"} /\ phase = "start"
    /\ \E pre \in {BeforeLoop(call)} :
       \E r \in { IF pre # <<>> \/ call.plugins = <<>>
                  THEN [calls |-> <<>>, raised |-> pre, notes |-> <<>>]
                  ELSE IF op = "create"
                  THEN CreateLoop(call.plugins,
                                  [collection_path |-> call.collection.path,
                                   collection_name |-> call.collection.name,
                                   namespace |-> call.collection.namespace],
                                  1, <<>>)
                  ELSE CreatorCreateLoop(call.plugins, call.collection, 1, <<>>) } :
           /\ ret' = r.calls
           /\ raised' = r.raised
           /\ notes' = r.notes
           \* output.critical ends the process with sys.exit(1)
           /\ failed' = IF pre = <<>> /\ call.plugins = <<>> /\ op = "create"
                        THEN "exit" ELSE ""
    /\ phase' = "done"
    /\ UNCHANGED <<resources, template_data, templar, fs, fs0, paths, paths1,
                   warnings, op, flags, plugin, copyCalls, askCalls, answer,
                   prompts, stdin, call>>

\* the content definitions: plugin items with the keys name and type, with or
\* without the key docstring
CreateInit ==
    /\ op \in {"create", "creator_create"}
    /\ call \in
         [file : {"ok", "missing"},
          errors : {<<>>, <<"* is a required property">>},
          collection : [path : {"w"}, name : {"c"}, namespace : {"x"}],
          plugins :
              UNION { [1..n ->
                         [name : {"p", "q"},
                          type : {"module_network_cli", "filter", "nonexistent"}]
                         \cup
                         [name : {"p", "q"},
                          type : {"module_network_cli", "filter", "nonexistent"},
                          docstring : {"d"}]] : n \in 0..MaxItems }]
    /\ ret = <<>>
    /\ stdin = <<>>
    /\ flags = [force |-> FALSE, overwrite |-> FALSE, no_overwrite |-> FALSE]
    /\ plugin = [type |-> "", name |-> <<>>]
    /\ resources = <<>>
    /\ template_data \in {[namespace |-> <<"x">>, collection_name |-> <<"c">>]}
    /\ templar = TRUE
    /\ fs = BareFs
    /\ fs0 = fs
    /\ paths = <<>>
    /\ paths1 = <<>>
    /\ warnings = <<>>
    /\ phase = "start"
    /\ failed = ""
    /\ copyCalls = 0
    /\ askCalls = 0
    /\ answer = ""
    /\ prompts = 0
    /\ notes = <<>>
    /\ raised = <<>>

SpecCreate == CreateInit /\ [][CreateRun]_vars

\* C30 as stated: in Create.run the configuration passed to the scaffolder of
\* a plugin item holds only that item's own keys and the collection path,
\* name and namespace; no key of an earlier item is carried over
OwnKeysOnly ==
    (op = "create" /\ phase = "done") =>
        \A k \in 1..Len(ret) :
            DOMAIN ret[k].config \subseteq
                DOMAIN call.plugins[ret[k].item]
                    \cup {"collection_path", "collection_name", "namespace"}

============================================================================
